---- MODULE Spec2Model ----
(***************************************************************************)
(* Model of the olares-ollama proxy: the Backend Client (model listing     *)
(* match, pull protocol), the Progress Store, the model acquisition run    *)
(* started by main, and the request handlers of the reverse proxy.         *)
(*                                                                         *)
(* Strings whose characters matter (model names) are sequences of          *)
(* one-character strings; opaque strings are TLA+ strings.  Times are      *)
(* whole seconds.  A float64 percentage is kept as the exact ratio         *)
(* [n, d] meaning n/d.                                                     *)
(***************************************************************************)
EXTENDS Integers, Sequences, FiniteSets, TLC

VARIABLES
    pm,            \* ProgressManager fields (status, progress, total, ...)
    stateFile,     \* content of data/progress_state.json
    now,           \* wall clock at the program's last reading of it, seconds
    pc,            \* position of the acquisition goroutine
    attempt,       \* ensureModel: loop variable attempt
    pullCount,     \* number of POST /api/pull requests issued so far
    lastPullResp,  \* PullModelWithProgress: lastPullResp
    nLines,        \* lines decoded from the current pull stream
    elapsed,       \* PullModelWithProgress: elapsed of the wait window
    waitTime,      \* PullModelWithProgress: waitTime
    vAttempt,      \* PullModelWithProgress: verification loop variable
    verifyDelay,   \* PullModelWithProgress: verifyDelay
    sawCompleted,  \* the run has called UpdateProgress("completed", ...)
    runErr,        \* the error ensureModel returned ("" for nil or none yet)
    firstCheck,    \* the answer of ensureModel's first existence check
    confirmed,     \* some ModelExists or ModelUsable call of the run returned true
    usableProbe,   \* the ModelUsable call of the latest verification attempt, if any
    scen,          \* how far the run has followed the end-to-end scenario
    exQuery,       \* ModelExists: the modelName argument
    exModels,      \* ModelExists: the names of the decoded listing
    exResult,      \* ModelExists: "none" before the call, then "true"/"false"
    stBody,        \* lines of the backend's streamed response body
    stPos,         \* lines the converter's scanner has consumed
    stOut,         \* SSE events written to the caller, in order
    stRoleSent,    \* convertOllamaStreamToOpenAI: roleSent
    stEnd,         \* why the converter's loop ended ("" while it runs)
    connOpen,      \* the caller's connection still accepts writes
    stLate,        \* writes attempted after a write to the caller had failed
    rq,            \* the request a handler was called with
    handledBy,     \* the handler that served it ("" before it is served)
    sent,          \* requests made to the backend for it, in order
    replies,       \* the backend's answers to them, in order
    rsp,           \* the response written to the caller
    mu,            \* ProgressManager.mu: held by the writer, number of readers
    writer,        \* the goroutine inside UpdateProgress and where it stands
    reader         \* the goroutine inside GetProgress and where it stands

acqVars == <<pm, stateFile, now, pc, attempt, pullCount, lastPullResp, nLines,
             elapsed, waitTime, vAttempt, verifyDelay, sawCompleted, runErr,
             firstCheck, confirmed, usableProbe,
             scen>>

exVars == <<exQuery, exModels, exResult>>

stVars == <<stBody, stPos, stOut, stRoleSent, stEnd, connOpen, stLate>>

hVars == <<rq, handledBy, sent, replies, rsp>>

lkVars == <<mu, writer, reader>>

vars == <<acqVars, exVars, stVars, hVars, lkVars>>

-----------------------------------------------------------------------------
(* Bounds of the model *)

\* characters of a model name
MaxNameLen == 3
\* entries of a backend listing given to ModelExists
MaxListing == 2
\* lines one pull stream may carry before it ends
MaxLines == 2
\* lines of a streamed inference response body
MaxStream == 4
\* wall clock at process start
StartTime == 100
\* latest clock reading of the run, in seconds after StartTime
MaxClock == 2

-----------------------------------------------------------------------------
(* Strings as character sequences *)

Colon == ":"

HasPrefix(s, p) ==
    /\ Len(p) <= Len(s)
    /\ SubSeq(s, 1, Len(p)) = p

Contains(s, c) == \E i \in 1..Len(s) : s[i] = c

\* strings.Split(s, ":")[0]: the part before the first colon
SplitFirst(s) ==
    IF Contains(s, Colon)
    THEN LET i == CHOOSE k \in 1..Len(s) :
                     s[k] = Colon /\ \A j \in 1..(k-1) : s[j] # Colon
         IN  SubSeq(s, 1, i - 1)
    ELSE s

\* the three match loops of Client.ModelExists over a decoded listing
ExactMatch(modelName, models) ==
    \E i \in 1..Len(models) : models[i] = modelName

PrefixMatch(modelName, models) ==
    /\ Contains(modelName, Colon)
    /\ LET baseName == SplitFirst(modelName)
       IN  \E i \in 1..Len(models) :
              \/ models[i] = baseName
              \/ HasPrefix(models[i], baseName \o <<Colon>>)

ReverseMatch(modelName, models) ==
    \E i \in 1..Len(models) :
        \/ HasPrefix(models[i], modelName \o <<Colon>>)
        \/ models[i] = modelName

\* the listing check without the prefix matches: exact names only
ModelExistsExact(modelName, models) == ExactMatch(modelName, models)

ModelExists(modelName, models) ==
    \/ ExactMatch(modelName, models)
    \/ PrefixMatch(modelName, models)
    \/ ReverseMatch(modelName, models)

-----------------------------------------------------------------------------
(* Progress Store *)

\* cfg.Model
Model == <<"m", Colon, "t">>

\* nil *time.Time
NoTime == 0

NoFile == [exists |-> FALSE, status |-> "", completedAt |-> 0, duration |-> 0]

\* the zero ProgressManager built by NewProgressManager before loadState
\* (sets counts the assignments to completedAt and updates the calls of
\* UpdateProgress, up to "two or more"; they are not fields of the Go struct)
NewPM == [status |-> "", progress |-> [n |-> 0, d |-> 1], total |-> 0,
          completed |-> 0, completedAt |-> NoTime, duration |-> 0,
          startTime |-> StartTime, sets |-> 0, updates |-> 0]

\* a store state: the manager and the state file
Store(p, f) == [pm |-> p, file |-> f]

loadState(p, f) ==
    IF f.exists /\ f.status = "completed" /\ f.completedAt > 0
    THEN [p EXCEPT !.status = f.status,
                   !.completedAt = f.completedAt,
                   !.duration = f.duration,
                   !.sets = @ + 1]
    ELSE p

saveState(s) ==
    IF s.pm.completedAt = NoTime
    THEN s
    ELSE LET duration == IF s.pm.duration > 0
                         THEN s.pm.duration
                         ELSE s.pm.completedAt - s.pm.startTime
         IN  Store([s.pm EXCEPT !.duration = duration],
                   [exists |-> TRUE, status |-> s.pm.status,
                    completedAt |-> s.pm.completedAt, duration |-> duration])

IsFinalStatus(status) == status = "completed" \/ status = "success"

\* UpdateProgress without the completedAt == nil guard
UpdateProgressOverwrite(s, status, completed, total, t) ==
    LET p1 == [s.pm EXCEPT !.updates = IF @ < 2 THEN @ + 1 ELSE @,
                           !.status = status,
                           !.completed = completed,
                           !.total = total,
                           !.progress = IF total > 0
                                        THEN [n |-> completed * 100, d |-> total]
                                        ELSE @]
    IN  IF IsFinalStatus(status)
        THEN saveState(Store([p1 EXCEPT !.completedAt = t,
                                        !.duration = t - p1.startTime,
                                        !.sets = @ + 1],
                             s.file))
        ELSE Store(p1, s.file)

\* UpdateProgress that resets the percentage when total is 0
UpdateProgressResetPct(s, status, completed, total, t) ==
    LET p1 == [s.pm EXCEPT !.updates = IF @ < 2 THEN @ + 1 ELSE @,
                           !.status = status,
                           !.completed = completed,
                           !.total = total,
                           !.progress = IF total > 0
                                        THEN [n |-> completed * 100, d |-> total]
                                        ELSE [n |-> 0, d |-> 1]]
    IN  IF IsFinalStatus(status) /\ p1.completedAt = NoTime
        THEN saveState(Store([p1 EXCEPT !.completedAt = t,
                                        !.duration = t - p1.startTime,
                                        !.sets = @ + 1],
                             s.file))
        ELSE IF IsFinalStatus(status)
             THEN saveState(Store(p1, s.file))
             ELSE Store(p1, s.file)

UpdateProgress(s, status, completed, total, t) ==
    LET p1 == [s.pm EXCEPT !.updates = IF @ < 2 THEN @ + 1 ELSE @,
                           !.status = status,
                           !.completed = completed,
                           !.total = total,
                           !.progress = IF total > 0
                                        THEN [n |-> completed * 100, d |-> total]
                                        ELSE @]
    IN  IF IsFinalStatus(status) /\ p1.completedAt = NoTime
        THEN saveState(Store([p1 EXCEPT !.completedAt = t,
                                        !.duration = t - p1.startTime,
                                        !.sets = @ + 1],
                             s.file))
        ELSE IF IsFinalStatus(status)
             THEN saveState(Store(p1, s.file))
             ELSE Store(p1, s.file)

\* GetProgress: the snapshot a status query returns; completedAt and duration
\* are reported only when completedAt is set (hasCompletion)
GetProgress(p) ==
    [status |-> p.status, progress |-> p.progress, total |-> p.total,
     completed |-> p.completed,
     hasCompletion |-> p.completedAt # NoTime,
     completedAt |-> p.completedAt,
     duration |-> IF p.completedAt = NoTime THEN 0
                  ELSE IF p.duration > 0 THEN p.duration
                  ELSE p.completedAt - p.startTime]

-----------------------------------------------------------------------------
(* Backend answers seen by the acquisition run *)

\* answers to GET /api/tags: a failure (transport error, non-200, bad JSON)
\* or a decoded listing
Listings == { <<>>, <<Model>>, << <<"m">> >>, << <<"x">>, <<"m", Colon, "u">> >>,
              << <<"x">> >> }

TagsReplies == {[ok |-> FALSE, models |-> <<>>]} \cup
               {[ok |-> TRUE, models |-> l] : l \in Listings}

\* Client.ModelExists as its callers see it: "err", "true" or "false"
ExistsResult(r) ==
    IF ~r.ok THEN "err"
    ELSE IF ModelExists(Model, r.models) THEN "true" ELSE "false"

ExistsResults == {ExistsResult(r) : r \in TagsReplies}

\* answers to a probe request of Client.ModelUsable
ProbeReplies == {"transportErr", "200", "404", "500"}

\* Client.ModelUsable: /api/show, then a trial /api/generate
ModelUsable(show, gen) ==
    IF show = "transportErr" THEN "err"
    ELSE IF show = "200" THEN "true"
    ELSE IF gen = "transportErr" THEN "err"
    ELSE IF gen = "200" \/ gen = "500" THEN "true"
    ELSE "false"

UsableResults == {ModelUsable(show, gen) : show \in ProbeReplies, gen \in ProbeReplies}

\* answers to POST /api/pull
PullReplies == {"transportErr", "non200", "ok"}

\* decoded lines of the pull stream (PullResponse); completed and total are
\* counted in KiB
ByteCounts == { <<0, 0>>, <<100, 1000>>, <<1000, 1000>> }

StreamStatuses == {"pulling manifest", "downloading", "success"}

PullLines == {l \in [status : StreamStatuses, completed : {0, 100, 1000},
                      total : {0, 1000}] :
                  /\ <<l.completed, l.total>> \in ByteCounts
                  /\ l.status = "pulling manifest" => l.total = 0
                  /\ l.status = "downloading" => l.total > 0}

ZeroPullResp == [status |-> "", completed |-> 0, total |-> 0]

\* state files a previous process can have left behind
PersistedFiles ==
    { NoFile,
      [exists |-> TRUE, status |-> "completed", completedAt |-> 40, duration |-> 7],
      [exists |-> TRUE, status |-> "completed", completedAt |-> 40, duration |-> 0] }

-----------------------------------------------------------------------------
(* Program constants of the acquisition run *)

maxRetries == 3
maxVerifyAttempts == 10
checkInterval == 5
verifyDelayStart == 3
verifyDelayCap == 30
defaultWait == 30
maxWait == 300
usableFrom == 3
\* 1024 * 1024 bytes, in the unit of the model's byte counts: the KiB (the
\* counts of the model are multiples of 1024 bytes, so that 5000 MiB and a
\* hundred times as much stay within TLC's integers)
MiB == 1024
assumedMiBPerSec == 10

\* a mutated minimum that never applies its cap
MinLeft(a, b) == a

Min(a, b) == IF a < b THEN a ELSE b

\* Go's int() of a float quotient: truncation toward zero
TruncDiv(a, b) == IF a >= 0 THEN a \div b ELSE -((-a) \div b)

\* the wait window computed from the last decoded line
WaitTimeFor(last) ==
    IF last.total > 0
    THEN Min(TruncDiv(last.total - last.completed, assumedMiBPerSec * MiB)
                 + defaultWait, maxWait)
    ELSE defaultWait

\* the end-to-end scenario: absent model, stream {downloading 100/1000},
\* {success}, EOF, polls false, false, true, model present afterwards
ScenOff == 0 - 1
ScenStep(k, cond) == IF scen = k /\ cond THEN k + 1 ELSE ScenOff

-----------------------------------------------------------------------------
(* The acquisition goroutine: main -> ensureModel -> PullModelWithProgress *)

Cur == Store(pm, stateFile)

Put(s) == /\ pm' = s.pm
          /\ stateFile' = s.file

\* what time.Now() can return to an update with this status: the clock never
\* runs backwards; only an update with a final status reads it
Readings(status) ==
    IF IsFinalStatus(status) THEN now..(StartTime + MaxClock) ELSE {now}

\* no ModelUsable call has been made
NoProbe == [attempt |-> 0, after |-> "none"]

\* ensureModel returned an error: main records "error"
MainOnError(s, t) == UpdateProgress(s, "error", 0, 0, t)

\* a first existence check that pulls even when the model is present
Check0PullsAnyway ==
    /\ pc = "check0"
    /\ \E ex \in ExistsResults :
         /\ scen' = ScenStep(0, ex = "false")
         /\ firstCheck' = ex
         /\ confirmed' = (ex = "true")
         /\ UNCHANGED usableProbe
         /\ IF ex = "err"
            THEN /\ Put(MainOnError(Cur, now))
                 /\ pc' = "done"
                 /\ runErr' = "check"
                 /\ UNCHANGED <<now, attempt, sawCompleted>>
            ELSE /\ Put(UpdateProgress(Cur, "downloading", 0, 0, now))
                 /\ pc' = "pull"
                 /\ attempt' = 1
                 /\ UNCHANGED <<now, sawCompleted, runErr>>
    /\ UNCHANGED <<pullCount, lastPullResp, nLines, elapsed, waitTime,
                   vAttempt, verifyDelay>>

\* ensureModel, first existence check
Check0 ==
    /\ pc = "check0"
    /\ \E ex \in ExistsResults :
         /\ scen' = ScenStep(0, ex = "false")
         /\ firstCheck' = ex
         /\ confirmed' = (ex = "true")
         /\ UNCHANGED usableProbe
         /\ IF ex = "err"
            THEN /\ Put(MainOnError(Cur, now))
                 /\ pc' = "done"
                 /\ runErr' = "check"
                 /\ UNCHANGED <<now, attempt, sawCompleted>>
            ELSE IF ex = "true"
            THEN /\ \E t \in Readings("completed") :
                       /\ Put(UpdateProgress(Cur, "completed", 0, 0, t))
                       /\ now' = t
                 /\ pc' = "done"
                 /\ sawCompleted' = TRUE
                 /\ UNCHANGED <<attempt, runErr>>
            ELSE /\ Put(UpdateProgress(Cur, "downloading", 0, 0, now))
                 /\ pc' = "pull"
                 /\ attempt' = 1
                 /\ UNCHANGED <<now, sawCompleted, runErr>>
    /\ UNCHANGED <<pullCount, lastPullResp, nLines, elapsed, waitTime,
                   vAttempt, verifyDelay>>

\* PullModelWithProgress up to the start of the stream
PullStart ==
    /\ UNCHANGED <<firstCheck, confirmed, usableProbe>>
    /\ pc = "pull"
    /\ pullCount' = pullCount + 1
    /\ \E reply \in PullReplies :
         LET s1 == UpdateProgress(Cur, "starting", 0, 0, now) IN
         /\ scen' = ScenStep(1, reply = "ok")
         /\ IF reply = "ok"
            THEN /\ Put(UpdateProgress(s1, "downloading", 0, 0, now))
                 /\ pc' = "stream"
            ELSE /\ Put(UpdateProgress(s1, "error", 0, 0, now))
                 /\ pc' = "afterFail"
    /\ lastPullResp' = ZeroPullResp
    /\ nLines' = 0
    /\ UNCHANGED runErr
    /\ UNCHANGED <<now, attempt, elapsed, waitTime, vAttempt, verifyDelay,
                   sawCompleted>>

\* a mutated reader that leaves the stream at a success line
StreamLineStopsOnSuccess ==
    /\ UNCHANGED <<firstCheck, confirmed, usableProbe>>
    /\ pc = "stream"
    /\ nLines < MaxLines
    /\ \E line \in PullLines :
         /\ lastPullResp' = line
         /\ \E t \in Readings(line.status) :
               /\ Put(UpdateProgress(Cur, line.status, line.completed,
                                     line.total, t))
               /\ now' = t
         /\ scen' = ScenOff
         /\ pc' = IF line.status = "success" THEN "wait" ELSE pc
         /\ waitTime' = IF line.status = "success" THEN WaitTimeFor(line) ELSE waitTime
    /\ nLines' = nLines + 1
    /\ elapsed' = 0
    /\ UNCHANGED runErr
    /\ UNCHANGED <<attempt, pullCount, vAttempt, verifyDelay, sawCompleted>>

\* one decoded line of the pull stream
StreamLine ==
    /\ UNCHANGED <<firstCheck, confirmed, usableProbe>>
    /\ pc = "stream"
    /\ nLines < MaxLines
    /\ \E line \in PullLines :
         /\ lastPullResp' = line
         /\ \E t \in Readings(line.status) :
               /\ Put(UpdateProgress(Cur, line.status, line.completed,
                                     line.total, t))
               /\ now' = t
         /\ scen' = IF scen = 2
                    THEN ScenStep(2, line = [status |-> "downloading",
                                             completed |-> 100, total |-> 1000])
                    ELSE ScenStep(3, line = [status |-> "success",
                                             completed |-> 0, total |-> 0])
    /\ nLines' = nLines + 1
    /\ UNCHANGED runErr
    /\ UNCHANGED <<pc, attempt, pullCount, elapsed, waitTime, vAttempt,
                   verifyDelay, sawCompleted>>

\* the decoder fails on the stream
StreamDecodeErr ==
    /\ UNCHANGED <<firstCheck, confirmed, usableProbe>>
    /\ pc = "stream"
    /\ Put(UpdateProgress(Cur, "error", 0, 0, now))
    /\ pc' = "afterFail"
    /\ scen' = ScenOff
    /\ UNCHANGED runErr
    /\ UNCHANGED <<now, attempt, pullCount, lastPullResp, nLines, elapsed,
                   waitTime, vAttempt, verifyDelay, sawCompleted>>

\* end of the stream: enter the wait window
StreamEOF ==
    /\ UNCHANGED <<firstCheck, confirmed, usableProbe>>
    /\ pc = "stream"
    /\ Put(UpdateProgress(Cur, "downloading", lastPullResp.completed,
                          lastPullResp.total, now))
    /\ waitTime' = WaitTimeFor(lastPullResp)
    /\ elapsed' = 0
    /\ pc' = "wait"
    /\ scen' = ScenStep(4, TRUE)
    /\ UNCHANGED runErr
    /\ UNCHANGED <<now, attempt, pullCount, lastPullResp, nLines, vAttempt,
                   verifyDelay, sawCompleted>>

\* one round of the wait window: sleep, then poll the listing
WaitPoll ==
    /\ UNCHANGED <<firstCheck, confirmed, usableProbe>>
    /\ pc = "wait"
    /\ elapsed < waitTime
    /\ elapsed' = elapsed + checkInterval
    /\ \E ex \in ExistsResults :
         /\ scen' = IF scen = 7 THEN ScenStep(7, ex = "true")
                    ELSE IF scen = 6 THEN ScenStep(6, ex = "false")
                    ELSE ScenStep(5, ex = "false")
         /\ IF ex = "true"
            THEN /\ \E t \in Readings("completed") :
                       /\ Put(UpdateProgress(Cur, "completed",
                                             lastPullResp.completed,
                                             lastPullResp.total, t))
                       /\ now' = t
                 /\ pc' = "dblcheck"
                 /\ sawCompleted' = TRUE
            ELSE /\ IF elapsed' % 30 = 0
                    THEN Put(UpdateProgress(Cur, "downloading",
                                            lastPullResp.completed,
                                            lastPullResp.total, now))
                    ELSE UNCHANGED <<pm, stateFile>>
                 /\ UNCHANGED <<now, pc, sawCompleted>>
    /\ UNCHANGED runErr
    /\ UNCHANGED <<attempt, pullCount, lastPullResp, nLines, waitTime, vAttempt,
                   verifyDelay>>

\* the wait window is over: enter verifying
WaitExpire ==
    /\ UNCHANGED <<firstCheck, confirmed, usableProbe>>
    /\ pc = "wait"
    /\ elapsed >= waitTime
    /\ Put(UpdateProgress(Cur, "verifying", lastPullResp.completed,
                          lastPullResp.total, now))
    /\ vAttempt' = 1
    /\ verifyDelay' = verifyDelayStart
    /\ pc' = "verify"
    /\ scen' = ScenOff
    /\ UNCHANGED runErr
    /\ UNCHANGED <<now, attempt, pullCount, lastPullResp, nLines, elapsed,
                   waitTime, sawCompleted>>

\* one iteration of the verification loop
Verify ==
    /\ UNCHANGED firstCheck
    /\ pc = "verify"
    /\ \E ex \in ExistsResults, us \in UsableResults :
         LET c  == lastPullResp.completed
             t  == lastPullResp.total
             \* the status update and sleep at the head of attempts 2..
             s0 == IF vAttempt > 1
                   THEN UpdateProgress(Cur, "verifying", c, t, now)
                   ELSE Cur
             last == vAttempt = maxVerifyAttempts
             probed == ex = "false" /\ vAttempt >= usableFrom
             usable == probed /\ us = "true"
         IN
         /\ usableProbe' = IF probed
                           THEN [attempt |-> vAttempt, after |-> ex]
                           ELSE NoProbe
         /\ confirmed' = (confirmed \/ ex = "true" \/ usable)
         /\ verifyDelay' = IF vAttempt > 1
                           THEN Min(verifyDelay * 2, verifyDelayCap)
                           ELSE verifyDelay
         /\ IF ex = "err"
            THEN IF last
                 THEN /\ Put(UpdateProgress(s0, "error", 0, 0, now))
                      /\ pc' = "afterFail"
                      /\ UNCHANGED <<now, vAttempt, sawCompleted>>
                 ELSE /\ Put(UpdateProgress(s0, "verifying", c, t, now))
                      /\ vAttempt' = vAttempt + 1
                      /\ UNCHANGED <<now, pc, sawCompleted>>
            ELSE IF ex = "true" \/ usable
            THEN /\ \E rt \in Readings("completed") :
                       /\ Put(UpdateProgress(s0, "completed", c, t, rt))
                       /\ now' = rt
                 /\ pc' = "dblcheck"
                 /\ sawCompleted' = TRUE
                 /\ UNCHANGED vAttempt
            ELSE IF last
                 THEN /\ Put(UpdateProgress(
                                UpdateProgress(s0, "verifying", c, t, now),
                                "error", 0, 0, now))
                      /\ pc' = "afterFail"
                      /\ UNCHANGED <<now, vAttempt, sawCompleted>>
                 ELSE /\ Put(UpdateProgress(s0, "verifying", c, t, now))
                      /\ vAttempt' = vAttempt + 1
                      /\ UNCHANGED <<now, pc, sawCompleted>>
    /\ scen' = ScenOff
    /\ UNCHANGED runErr
    /\ UNCHANGED <<attempt, pullCount, lastPullResp, nLines, elapsed, waitTime>>

\* a failed attempt that gives up without waiting one attempt too early
LastAttemptEarly(a) == a = maxRetries - 1

\* a retry loop that allows one attempt more
LastAttemptLate(a) == a = maxRetries + 1

\* ensureModel: attempt == maxRetries
LastAttempt(a) == a = maxRetries

\* a retry that pulls again although the re-check found the model
AfterFailPullsAnyway ==
    /\ UNCHANGED firstCheck
    /\ usableProbe' = NoProbe
    /\ pc = "afterFail"
    /\ \E ex \in ExistsResults :
         /\ confirmed' = (confirmed \/ ex = "true")
         /\ IF LastAttempt(attempt) /\ ex # "true"
            THEN /\ Put(MainOnError(UpdateProgress(Cur, "error", 0, 0, now), now))
                 /\ pc' = "done"
                 /\ runErr' = "pull"
                 /\ UNCHANGED <<now, attempt, sawCompleted>>
            ELSE IF LastAttempt(attempt)
            THEN /\ \E t \in Readings("completed") :
                       /\ Put(UpdateProgress(Cur, "completed", 0, 0, t))
                       /\ now' = t
                 /\ pc' = "done"
                 /\ sawCompleted' = TRUE
                 /\ UNCHANGED <<attempt, runErr>>
            ELSE /\ attempt' = attempt + 1
                 /\ pc' = "pull"
                 /\ UNCHANGED <<now, pm, stateFile, sawCompleted, runErr>>
    /\ scen' = ScenOff
    /\ UNCHANGED <<pullCount, lastPullResp, nLines, elapsed, waitTime, vAttempt,
                   verifyDelay>>

\* ensureModel after PullModelWithProgress returned an error
AfterFail ==
    /\ UNCHANGED firstCheck
    /\ usableProbe' = NoProbe
    /\ pc = "afterFail"
    /\ \E ex \in ExistsResults :
         /\ confirmed' = (confirmed \/ ex = "true")
         /\ IF ex = "true"
            THEN /\ \E t \in Readings("completed") :
                       /\ Put(UpdateProgress(Cur, "completed", 0, 0, t))
                       /\ now' = t
                 /\ pc' = "done"
                 /\ sawCompleted' = TRUE
                 /\ UNCHANGED <<attempt, runErr>>
            ELSE IF LastAttempt(attempt)
            THEN /\ Put(MainOnError(UpdateProgress(Cur, "error", 0, 0, now), now))
                 /\ pc' = "done"
                 /\ runErr' = "pull"
                 /\ UNCHANGED <<now, attempt, sawCompleted>>
            ELSE /\ attempt' = attempt + 1
                 /\ pc' = "pull"
                 /\ UNCHANGED <<now, pm, stateFile, sawCompleted, runErr>>
    /\ scen' = ScenOff
    /\ UNCHANGED <<pullCount, lastPullResp, nLines, elapsed, waitTime, vAttempt,
                   verifyDelay>>

\* ensureModel after PullModelWithProgress returned nil: the double check
DblCheck ==
    /\ UNCHANGED firstCheck
    /\ usableProbe' = NoProbe
    /\ pc = "dblcheck"
    /\ \E ex \in ExistsResults :
         /\ confirmed' = (confirmed \/ ex = "true")
         /\ scen' = ScenStep(8, ex # "false")
         /\ IF ex = "false" /\ attempt < maxRetries
            THEN /\ attempt' = attempt + 1
                 /\ pc' = "pull"
                 /\ UNCHANGED <<now, pm, stateFile, sawCompleted, runErr>>
            ELSE IF ex = "false"
            THEN /\ Put(MainOnError(UpdateProgress(Cur, "error", 0, 0, now), now))
                 /\ pc' = "done"
                 /\ runErr' = "unavailable"
                 /\ UNCHANGED <<now, attempt, sawCompleted>>
            ELSE /\ \E t \in Readings("completed") :
                       /\ Put(UpdateProgress(Cur, "completed", 0, 0, t))
                       /\ now' = t
                 /\ pc' = "done"
                 /\ sawCompleted' = TRUE
                 /\ UNCHANGED <<attempt, runErr>>
    /\ UNCHANGED <<pullCount, lastPullResp, nLines, elapsed, waitTime, vAttempt,
                   verifyDelay>>

\* the listing check with nothing to do
ExIdle ==
    /\ exQuery = <<>>
    /\ exModels = <<>>
    /\ exResult = "none"

\* process start: NewProgressManager (with loadState), then the goroutine
AcqInit ==
    /\ stateFile \in PersistedFiles
    /\ pm = loadState(NewPM, stateFile)
    /\ now = StartTime
    /\ pc = "check0"
    /\ attempt = 0
    /\ pullCount = 0
    /\ lastPullResp = ZeroPullResp
    /\ nLines = 0
    /\ elapsed = 0
    /\ waitTime = 0
    /\ vAttempt = 0
    /\ verifyDelay = 0
    /\ sawCompleted = FALSE
    /\ runErr = ""
    /\ firstCheck = "none"
    /\ confirmed = FALSE
    /\ usableProbe = NoProbe
    /\ scen = 0

\* a process whose acquisition goroutine is not looked at
AcqIdle ==
    /\ AcqInit
    /\ stateFile = NoFile

\* no streamed response in progress
StIdle ==
    /\ stBody = <<>>
    /\ stPos = 0
    /\ stOut = <<>>
    /\ stRoleSent = FALSE
    /\ stEnd = ""
    /\ connOpen = TRUE
    /\ stLate = 0

\* no request being served
NoRequest == [route |-> ""]
NoResponse == [status |-> 0, kind |-> ""]

HIdle ==
    /\ rq = NoRequest
    /\ handledBy = ""
    /\ sent = <<>>
    /\ replies = <<>>
    /\ rsp = NoResponse

\* nobody holds the store's lock; committed is the store as the last
\* finished UpdateProgress left it, cands the committed stores a running
\* GetProgress overlapped with (neither is a field of the Go struct)
LockIdle ==
    /\ mu = [w |-> FALSE, r |-> 0]
    /\ writer = [pc |-> "idle", target |-> Store(pm, stateFile), committed |-> pm]
    /\ reader = [pc |-> "idle", snap |-> GetProgress(NewPM), cands |-> {}]

Init ==
    /\ AcqInit
    /\ ExIdle
    /\ StIdle
    /\ HIdle
    /\ LockIdle

AcqNext ==
    \/ Check0
    \/ PullStart
    \/ StreamLine
    \/ StreamDecodeErr
    \/ StreamEOF
    \/ WaitPoll
    \/ WaitExpire
    \/ Verify
    \/ AfterFail
    \/ DblCheck

Next == AcqNext /\ UNCHANGED <<exVars, stVars, hVars, lkVars>>

Spec == Init /\ [][Next]_vars

\* the same run when the goroutine started by main keeps being scheduled and
\* every call it makes returns: a step that can be taken is taken
SpecLive == Spec /\ WF_vars(Next)

-----------------------------------------------------------------------------
(* The Progress Store under arbitrary callers *)

\* every status string a caller of UpdateProgress passes
UpdateStatuses == {"starting", "downloading", "verifying", "success",
                   "completed", "error", "pulling manifest"}

\* one UpdateProgress call with any arguments, at any later clock reading
StoreUpdate ==
    /\ UNCHANGED <<firstCheck, confirmed, usableProbe>>
    /\ \E status \in UpdateStatuses, b \in ByteCounts,
          t \in now..(StartTime + MaxClock) :
         /\ Put(UpdateProgress(Cur, status, b[1], b[2], t))
         /\ now' = t
    /\ UNCHANGED <<pc, attempt, pullCount, lastPullResp, nLines, elapsed,
                   waitTime, vAttempt, verifyDelay, sawCompleted, runErr, scen>>

NextStore == StoreUpdate /\ UNCHANGED <<exVars, stVars, hVars, lkVars>>

SpecStore == Init /\ [][NextStore]_vars

-----------------------------------------------------------------------------
(* The wait window after streams that announce large downloads *)

\* the first pull of a process without a state file has forwarded its
\* only line so far: one that leaves nothing, 350, 2700 or 5000 MiB to
\* download, or a success line without byte counts
InitWait ==
    /\ ExIdle /\ StIdle /\ HIdle
    /\ stateFile = NoFile
    /\ now = StartTime
    /\ \E st \in { "downloading", "success" }, mib \in { 0, 350, 2700, 5000 } :
          /\ st = "success" => mib = 0
          /\ lastPullResp = [status |-> st,
                             completed |-> IF st = "success" THEN 0 ELSE 1000,
                             total |-> IF st = "success" THEN 0 ELSE 1000 + mib * MiB]
    /\ LET s0 == Store(loadState(NewPM, NoFile), NoFile)
           s1 == UpdateProgress(s0, "starting", 0, 0, now)
           s2 == UpdateProgress(s1, "downloading", 0, 0, now)
       IN  pm = UpdateProgress(s2, lastPullResp.status, lastPullResp.completed,
                               lastPullResp.total, now).pm
    /\ pc = "stream"
    /\ attempt = 0 /\ pullCount = 1 /\ nLines = 1
    /\ elapsed = 0 /\ waitTime = 0 /\ vAttempt = 0 /\ verifyDelay = 0
    /\ sawCompleted = FALSE /\ runErr = "" /\ firstCheck = "false"
    /\ confirmed = FALSE /\ usableProbe = NoProbe
    /\ scen = ScenOff
    /\ LockIdle

NextWait ==
    /\ \/ StreamEOF
       \/ WaitPoll
       \/ WaitExpire
    /\ UNCHANGED <<exVars, stVars, hVars, lkVars>>

SpecWait == InitWait /\ [][NextWait]_vars

-----------------------------------------------------------------------------
(* The Progress Store's lock: one UpdateProgress against one GetProgress *)

\* UpdateProgress statement by statement: Lock, the assignments in their
\* order, the completion branch with saveState, Unlock
WriterStep ==
    /\ UNCHANGED <<pc, attempt, pullCount, lastPullResp, nLines, elapsed, waitTime>>
    /\ UNCHANGED <<vAttempt, verifyDelay, sawCompleted, runErr, firstCheck, scen>>
    /\ UNCHANGED <<confirmed, usableProbe>>
    /\ \/ /\ writer.pc = "idle"
          /\ mu = [w |-> FALSE, r |-> 0]
          /\ mu' = [mu EXCEPT !.w = TRUE]
          /\ \E status \in { "downloading", "verifying", "completed", "error" },
                b \in ByteCounts :
             \E t \in Readings(status) :
                /\ writer' = [writer EXCEPT !.pc = "status",
                                !.target = UpdateProgress(Cur, status, b[1], b[2], t)]
                /\ now' = t
          /\ UNCHANGED <<pm, stateFile, reader>>
       \/ /\ writer.pc \in { "status", "completed", "total", "progress", "final" }
          /\ pm' = CASE writer.pc = "status" -> [pm EXCEPT !.status = writer.target.pm.status]
                     [] writer.pc = "completed" -> [pm EXCEPT !.completed = writer.target.pm.completed]
                     [] writer.pc = "total" -> [pm EXCEPT !.total = writer.target.pm.total]
                     [] writer.pc = "progress" -> [pm EXCEPT !.progress = writer.target.pm.progress]
                     [] OTHER -> writer.target.pm
          /\ stateFile' = IF writer.pc = "final" THEN writer.target.file ELSE stateFile
          /\ writer' = [writer EXCEPT !.pc = CASE writer.pc = "status" -> "completed"
                                               [] writer.pc = "completed" -> "total"
                                               [] writer.pc = "total" -> "progress"
                                               [] writer.pc = "progress" -> "final"
                                               [] OTHER -> "unlock"]
          /\ UNCHANGED <<now, mu, reader>>
       \/ /\ writer.pc = "unlock"
          /\ mu' = [mu EXCEPT !.w = FALSE]
          /\ writer' = [writer EXCEPT !.pc = "idle", !.committed = pm]
          /\ reader' = IF reader.pc \in { "idle", "done" } THEN reader
                       ELSE [reader EXCEPT !.cands = @ \cup { pm }]
          /\ UNCHANGED <<pm, stateFile, now>>

\* a mutated GetProgress that does not wait for the writer
ReaderStepNoLock ==
    /\ UNCHANGED <<acqVars, writer>>
    /\ \/ /\ reader.pc = "idle"
          /\ mu' = [mu EXCEPT !.r = 1]
          /\ reader' = [pc |-> "status", snap |-> GetProgress(NewPM),
                        cands |-> { writer.committed }]
       \/ /\ reader.pc \in { "status", "progress", "total", "completed", "completion" }
          /\ LET g == GetProgress(pm) IN
             reader' = CASE reader.pc = "status" -> [reader EXCEPT !.pc = "progress", !.snap.status = g.status]
                         [] reader.pc = "progress" -> [reader EXCEPT !.pc = "total", !.snap.progress = g.progress]
                         [] reader.pc = "total" -> [reader EXCEPT !.pc = "completed", !.snap.total = g.total]
                         [] reader.pc = "completed" -> [reader EXCEPT !.pc = "completion", !.snap.completed = g.completed]
                         [] OTHER -> [reader EXCEPT !.pc = "unlock",
                                                    !.snap.hasCompletion = g.hasCompletion,
                                                    !.snap.completedAt = g.completedAt,
                                                    !.snap.duration = g.duration]
          /\ UNCHANGED mu
       \/ /\ reader.pc = "unlock"
          /\ mu' = [mu EXCEPT !.r = 0]
          /\ reader' = [reader EXCEPT !.pc = "done"]
       \/ /\ reader.pc = "done"
          /\ reader' = [reader EXCEPT !.pc = "idle"]
          /\ UNCHANGED mu

\* GetProgress statement by statement: RLock, the fields of the snapshot in
\* their order, RUnlock, then HandleProgressAPI writes the snapshot
ReaderStep ==
    /\ UNCHANGED <<acqVars, writer>>
    /\ \/ /\ reader.pc = "idle"
          /\ ~mu.w
          /\ mu' = [mu EXCEPT !.r = 1]
          /\ reader' = [pc |-> "status", snap |-> GetProgress(NewPM),
                        cands |-> { writer.committed }]
       \/ /\ reader.pc \in { "status", "progress", "total", "completed", "completion" }
          /\ LET g == GetProgress(pm) IN
             reader' = CASE reader.pc = "status" -> [reader EXCEPT !.pc = "progress", !.snap.status = g.status]
                         [] reader.pc = "progress" -> [reader EXCEPT !.pc = "total", !.snap.progress = g.progress]
                         [] reader.pc = "total" -> [reader EXCEPT !.pc = "completed", !.snap.total = g.total]
                         [] reader.pc = "completed" -> [reader EXCEPT !.pc = "completion", !.snap.completed = g.completed]
                         [] OTHER -> [reader EXCEPT !.pc = "unlock",
                                                    !.snap.hasCompletion = g.hasCompletion,
                                                    !.snap.completedAt = g.completedAt,
                                                    !.snap.duration = g.duration]
          /\ UNCHANGED mu
       \/ /\ reader.pc = "unlock"
          /\ mu' = [mu EXCEPT !.r = 0]
          /\ reader' = [reader EXCEPT !.pc = "done"]
       \/ /\ reader.pc = "done"
          /\ reader' = [reader EXCEPT !.pc = "idle"]
          /\ UNCHANGED mu

NextLock ==
    /\ \/ WriterStep
       \/ ReaderStep
    /\ UNCHANGED <<exVars, stVars, hVars>>

SpecLock == Init /\ [][NextLock]_vars

\* C25: the snapshot a status query returns is the store as one single
\* UpdateProgress call (or the start of the process) left it, however the
\* query's steps interleave with the writer's.
C25_ConsistentSnapshot ==
    reader.pc = "done" =>
        \E h \in reader.cands : reader.snap = GetProgress(h)

\* C25 witness: a query returned the store of the first update while the
\* writer, which had to wait for it, is in the middle of the second.
C25_Witness ==
    /\ reader.pc = "done"
    /\ reader.snap.status = "downloading" /\ reader.snap.completed = 100
    /\ writer.pc = "total"
    /\ writer.target.pm.status = "completed"
    /\ pm.status = "completed" /\ pm.completed = 0 /\ pm.total = 1000

-----------------------------------------------------------------------------
(* Claims about the Progress Store and the acquisition run *)

\* C2: once completedAt is set, no UpdateProgress call, whatever its status
\* and arguments, changes its value.
C2_CompletedAtImmutable ==
    [][pm.completedAt # NoTime => pm'.completedAt = pm.completedAt]_vars

\* C2 witness: completedAt was set by an update of this process and a later
\* update with a non-final status, read at a later clock time, left it alone.
C2_Witness ==
    /\ pm.sets = 1
    /\ pm.completedAt >= StartTime
    /\ pm.status = "error"
    /\ now > pm.completedAt

\* 10 percent as the exact ratio 100/1000*100
IsTenPercent(r) == r.n * 1000 = 100 * 100 * r.d

\* C3: in the end-to-end scenario (model absent at the first check, stream
\* {downloading 100/1000}, {success}, EOF, polls false, false, true, model
\* present at the final check) the run ends with status completed, the
\* percentage of the last reported byte counts (100 of 1000) and completedAt
\* assigned exactly once.
C3_ScenarioEndsCompleted ==
    (pc = "done" /\ scen = 9) =>
        /\ pm.status = "completed"
        /\ IsTenPercent(pm.progress)
        /\ pm.completedAt # NoTime
        /\ pm.sets = 1
        /\ runErr = ""

\* C3 witness: a fresh process has run the whole scenario.
C3_Witness ==
    /\ pc = "done"
    /\ scen = 9
    /\ pm.completedAt >= StartTime
    /\ pullCount = 1

\* C11: warm start: when the first existence check reports the model
\* present, the run has ended at once, having issued no pull request and
\* recorded exactly one progress update, with status completed.
C11_WarmStart ==
    firstCheck = "true" =>
        /\ pc = "done"
        /\ runErr = ""
        /\ pullCount = 0
        /\ pm.updates = 1
        /\ pm.status = "completed"

\* C11 witness: a fresh process found the model present and stopped.
C11_Witness ==
    /\ firstCheck = "true"
    /\ pc = "done"
    /\ pm.sets = 1
    /\ pm.completedAt >= StartTime
    /\ stateFile.exists

\* the store was restored from a state file recording a completion that an
\* earlier process reached
Restored == pm.completedAt # NoTime /\ pm.completedAt < StartTime

\* C12 as claimed: after a restart that restored a completion, no pull
\* request is issued, whatever the first existence check answers.
C12_NoPullAfterRestore ==
    Restored => pullCount = 0

\* C12 amended: after a restart that restored a completion, a pull request
\* is issued only when the first existence check reports the model absent,
\* and then it is issued.
C12_PullAfterRestoreOnlyIfAbsent ==
    Restored =>
        /\ pullCount > 0 => firstCheck = "false"
        /\ (firstCheck = "false" /\ pc # "pull") => pullCount > 0

\* C12 witness: the restored process found the model present and ended
\* without a pull, the restored completion time still in place.
C12_Witness ==
    /\ Restored
    /\ firstCheck = "true"
    /\ pc = "done"
    /\ pullCount = 0
    /\ pm.status = "completed"
    /\ stateFile.completedAt = pm.completedAt

\* C13: the state file is written only by a status update that reaches
\* completed: an update with any other status leaves the file unchanged, so
\* the file never records a status other than completed.
C13_FileWrittenOnlyOnCompleted ==
    [][/\ stateFile' # stateFile => pm'.status = "completed"
       /\ stateFile'.exists => stateFile'.status = "completed"]_vars

\* C14: in every state of the Progress Store the reported percentage equals
\* completedBytes/totalBytes*100 when totalBytes > 0 and 0 when totalBytes
\* is 0.
C14_PercentageDerived ==
    LET g == GetProgress(pm) IN
    /\ g.total > 0 => g.progress.n * g.total = g.completed * 100 * g.progress.d
    /\ g.total = 0 => g.progress.n = 0

\* C15: once the duration has been set, by the first completion of this
\* process or by restoring the state file, no later status update changes
\* the duration GetProgress reports or the duration in the state file.
C15_DurationImmutable ==
    [][pm.completedAt # NoTime =>
          /\ GetProgress(pm').duration = GetProgress(pm).duration
          /\ (stateFile.exists /\ stateFile'.exists) =>
                stateFile'.duration = stateFile.duration]_vars

\* C28: every line decoded from the pull stream, a line after a success line
\* included, is forwarded to the Progress Store and leaves the run reading
\* the stream; the wait window is entered only by the step that finds the
\* end of the stream.
C28_SuccessDoesNotStopReading ==
    [][/\ (pc = "stream" /\ nLines' = nLines + 1) =>
             /\ pc' = "stream"
             /\ pm'.status = lastPullResp'.status
             /\ pm'.completed = lastPullResp'.completed
             /\ pm'.total = lastPullResp'.total
       /\ (pc = "stream" /\ pc' = "wait") => nLines' = nLines]_vars

\* C28 witness: in the first pull a downloading line was forwarded after a
\* success line (which had set the completion time).
C28_Witness ==
    /\ pc = "stream" /\ pullCount = 1 /\ nLines = 2
    /\ stateFile.exists /\ pm.completedAt >= StartTime
    /\ lastPullResp.status = "downloading"
    /\ pm.status = "downloading" /\ pm.completed = 100

C30_VerifyBackoff ==
    pc = "verify" =>
        /\ vAttempt \in 1..10
        /\ vAttempt >= 2 =>
              verifyDelay = (IF vAttempt - 2 >= 4 THEN 30 ELSE 3 * 2^(vAttempt - 2))

\* C30 witness: the tenth attempt of a verification is about to sleep 30
\* seconds.
C30_Witness ==
    /\ pc = "verify"
    /\ vAttempt = 10
    /\ verifyDelay = 30

\* C31: during verifying, ModelUsable is called only on attempts at or past
\* the mid-point of the verification attempt budget, and only after that
\* attempt's ModelExists returned false without an error
C31_ProbeFromMidPoint ==
    usableProbe # NoProbe =>
        /\ 2 * usableProbe.attempt >= maxVerifyAttempts
        /\ usableProbe.after = "false"

\* C32: between two download attempts existence is re-checked first: after
\* a failed attempt the re-check either finds the model, and then completed
\* is recorded and the run ends with no further pull, or it does not (false
\* or error), and then the run gives up on the last attempt and otherwise
\* moves to the next attempt; a pull is only ever issued straight after an
\* existence check, and never once the run has ended
C32_RecheckBeforeRetry ==
    [][/\ pc = "afterFail" =>
            \/ /\ pc' = "done"
               /\ pm'.status = "completed"
               /\ confirmed'
               /\ pullCount' = pullCount
            \/ /\ pc' = "done"
               /\ pm'.status = "error"
               /\ LastAttempt(attempt)
               /\ confirmed' = confirmed
            \/ /\ pc' = "pull"
               /\ ~LastAttempt(attempt)
               /\ attempt' = attempt + 1
               /\ pm' = pm
               /\ pm.status # "completed"
               /\ confirmed' = confirmed
       /\ pc' = "pull" => pc \in {"check0", "afterFail", "dblcheck"}
       /\ pullCount' # pullCount => pc = "pull"
       /\ pc = "done" => pullCount' = pullCount]_vars

\* the first pull failed and was retried after a re-check that did not find
\* the model; the second failed too and its re-check found it
C32_Witness ==
    /\ pc = "done"
    /\ pm.status = "completed"
    /\ pullCount = 2
    /\ attempt = 2
    /\ nLines = 0
    /\ vAttempt = 0

\* C33: in every reachable state the status held by the Progress Store, and
\* returned by GET /api/progress, is one of idle, starting, downloading,
\* verifying, completed and error
StatusVocabulary ==
    {"idle", "starting", "downloading", "verifying", "completed", "error"}

C33_StatusVocabulary ==
    /\ pm.status \in StatusVocabulary
    /\ GetProgress(pm).status \in StatusVocabulary

\* C33, its second half: no raw status string of the pull stream is stored,
\* so after a line of the stream was read the status is still one of the six
C33_StreamStatusVocabulary ==
    (pc = "stream" /\ nLines > 0) => pm.status \in StatusVocabulary

\* C34: the acquisition run terminates: it ends, with the status completed
\* or error and after at most 3 pull requests, and from then on it makes no
\* pull request and no status update
C34_RunTerminates ==
    /\ <>(pc = "done")
    /\ [](pc = "done" => pm.status \in {"completed", "error"})
    /\ [](pullCount <= maxRetries)
    /\ [][pc = "done" => (pm' = pm /\ stateFile' = stateFile /\ pullCount' = pullCount)]_vars

\* a run that used all three pull requests and ended in error
C34_Witness ==
    /\ pc = "done"
    /\ pm.status = "error"
    /\ pullCount = maxRetries
    /\ runErr = "pull"

\* C38: whenever completedAt is set by this process (and not restored from
\* the state file of an earlier one), a ModelExists or ModelUsable call of
\* the run has returned true before; a success line of the pull stream
\* alone never sets completedAt
C38_CompletedAfterConfirmation ==
    (pm.completedAt # NoTime /\ pm.completedAt >= StartTime) => confirmed

\* C40: the duration reported by GetProgress and the duration written to the
\* state file are never negative, whatever updates and restarts came before
C40_DurationNonNegative ==
    /\ GetProgress(pm).duration >= 0
    /\ stateFile.exists => stateFile.duration >= 0

\* C40, the state file alone: no update writes a negative duration
C40_FileDurationNonNegative ==
    [][stateFile'.exists => stateFile'.duration >= 0]_vars

\* C9: completed is terminal: once the run has recorded completed, no further
\* pull request is issued and no other status is recorded.
C9_CompletedIsTerminal ==
    [][sawCompleted => (pullCount' = pullCount /\ pm'.status = "completed")]_vars

\* C10 as claimed: a run that ends with status error has made all 3 pull
\* attempts.
C10_ErrorOnlyAfterRetries ==
    (pc = "done" /\ pm.status = "error") => pullCount = maxRetries

\* C10 amended: a run that ends with status error either failed its first
\* existence check (and issued no pull) or has made all 3 pull attempts.
C10_ErrorAfterCheckOrRetries ==
    (pc = "done" /\ pm.status = "error") =>
        \/ runErr = "check" /\ pullCount = 0
        \/ runErr \in {"pull", "unavailable"} /\ pullCount = maxRetries
                                              /\ attempt = maxRetries

\* C10 witness: the run ended in error after its third pull attempt.
C10_Witness ==
    /\ pc = "done"
    /\ pm.status = "error"
    /\ pullCount = maxRetries
    /\ runErr = "pull"

-----------------------------------------------------------------------------
(* Client.ModelExists on its own: any query against any listing *)

NameChars == {"m", Colon}

\* all strings of at most n characters
RECURSIVE NamesUpTo(_)
NamesUpTo(n) ==
    IF n = 0 THEN { <<>> }
    ELSE LET shorter == NamesUpTo(n - 1)
         IN  shorter \cup {Append(w, c) : w \in {x \in shorter : Len(x) = n - 1},
                                          c \in NameChars}

Names == NamesUpTo(MaxNameLen)

\* the backend adds one more entry to the listing it will return
ExAddEntry ==
    /\ exResult = "none"
    /\ Len(exModels) < MaxListing
    /\ \E name \in Names : exModels' = Append(exModels, name)
    /\ UNCHANGED <<exQuery, exResult>>

\* ModelExists(exQuery) on the successfully fetched listing
ExCheck ==
    /\ exResult = "none"
    /\ exResult' = IF ModelExists(exQuery, exModels) THEN "true" ELSE "false"
    /\ UNCHANGED <<exQuery, exModels>>

InitExists ==
    /\ AcqIdle
    /\ StIdle
    /\ HIdle
    /\ LockIdle
    /\ exQuery \in Names
    /\ exModels = <<>>
    /\ exResult = "none"

NextExists ==
    /\ \/ ExAddEntry
       \/ ExCheck
    /\ UNCHANGED <<acqVars, stVars, hVars, lkVars>>

SpecExists == InitExists /\ [][NextExists]_vars

-----------------------------------------------------------------------------
(* Claim about the listing match *)

\* the query names a tag: it holds a colon
IsTagged(q) == \E i \in 1..Len(q) : q[i] = Colon

\* the family of a tagged query: what stands before its first colon
FamilyOf(q) ==
    LET firstColon == CHOOSE i \in 1..Len(q) :
                          q[i] = Colon /\ \A j \in 1..(i - 1) : q[j] # Colon
    IN  [k \in 1..(firstColon - 1) |-> q[k]]

\* entry is fam:* : fam, a colon, then anything
IsTagOf(entry, fam) ==
    /\ Len(entry) > Len(fam)
    /\ \A k \in 1..Len(fam) : entry[k] = fam[k]
    /\ entry[Len(fam) + 1] = Colon

\* the matches C5 lists
ClaimedMatch(q, entry) ==
    \/ entry = q
    \/ IsTagged(q) /\ (entry = FamilyOf(q) \/ IsTagOf(entry, FamilyOf(q)))
    \/ ~IsTagged(q) /\ IsTagOf(entry, q)

\* C5: on a fetched listing ModelExists(name) is true exactly when some entry
\* is name itself, or (tagged query fam:tag) is fam or some fam:*, or (bare
\* query fam) is some fam:*.
C5_ModelExistsMatches ==
    exResult # "none" =>
        (exResult = "true" <=>
            \E i \in 1..Len(exModels) : ClaimedMatch(exQuery, exModels[i]))

\* C5 witness: a tagged query found through a bare family entry that stands
\* behind an entry of another family.
C5_Witness ==
    /\ exResult = "true"
    /\ exQuery = <<"m", Colon, "m">>
    /\ exModels = << <<"m", "m">>, <<"m">> >>

-----------------------------------------------------------------------------
(* convertOllamaStreamToOpenAI: native NDJSON chat stream to SSE chunks *)

\* the lines a backend body can hold: an empty line, a line that is not
\* JSON, or a JSON object with done, message.role and message.content
\* (role and content "" when absent or not a string)
JsonLine(done, hasMsg, role, content) ==
    [kind |-> "json", done |-> done, hasMsg |-> hasMsg, role |-> role,
     content |-> content]

BodyLines ==
    { [kind |-> "empty", done |-> FALSE, hasMsg |-> FALSE, role |-> "",
       content |-> ""],
      [kind |-> "bad", done |-> FALSE, hasMsg |-> FALSE, role |-> "",
       content |-> ""],
      JsonLine(TRUE, FALSE, "", ""),
      JsonLine(TRUE, TRUE, "assistant", "a"),
      JsonLine(FALSE, FALSE, "", "") }
    \cup { JsonLine(FALSE, TRUE, rc[1], rc[2]) :
               rc \in { <<"", "">>, <<"", "a">>, <<"", "b">>,
                        <<"assistant", "">>, <<"assistant", "b">>,
                        <<"user", "a">> } }

RECURSIVE BodiesUpTo(_)
BodiesUpTo(n) ==
    IF n = 0 THEN { <<>> }
    ELSE LET shorter == BodiesUpTo(n - 1)
         IN  shorter \cup {Append(b, l) : b \in {x \in shorter : Len(x) = n - 1},
                                          l \in BodyLines}

\* the SSE events of the compatible dialect
DeltaChunk(role, content) ==
    [kind |-> "delta", role |-> role, content |-> content]
FinalChunk == [kind |-> "final", role |-> "", content |-> ""]
Sentinel == [kind |-> "sentinel", role |-> "", content |-> ""]

\* a converter that repeats the role on every line that names one
ChatDeltaAlwaysRole(line, roleSent) ==
    DeltaChunk(line.role, line.content)

\* the delta built from one message line: the role only while none was sent
ChatDelta(line, roleSent) ==
    DeltaChunk(IF ~roleSent /\ line.role # "" THEN line.role ELSE "",
               line.content)

\* len(delta) > 0
DeltaNonEmpty(d) == d.role # "" \/ d.content # ""

\* one iteration of the scanner loop
StreamScan ==
    /\ stEnd = ""
    /\ stPos < Len(stBody)
    /\ stPos' = stPos + 1
    /\ LET line == stBody[stPos + 1] IN
       IF line.kind # "json"
       THEN UNCHANGED <<stOut, stRoleSent, stEnd, connOpen, stLate>>
       ELSE IF line.done
       THEN \* two unchecked writes, then break: the second is made even
            \* when the first has failed
            /\ \E written \in (IF connOpen THEN 0..2 ELSE {0}) :
                  /\ stOut' = stOut \o SubSeq(<<FinalChunk, Sentinel>>, 1, written)
                  /\ connOpen' = (connOpen /\ written = 2)
                  /\ stLate' = IF written = 0 THEN stLate + 1 ELSE stLate
            /\ stEnd' = "done"
            /\ UNCHANGED stRoleSent
       ELSE IF ~line.hasMsg
       THEN UNCHANGED <<stOut, stRoleSent, stEnd, connOpen, stLate>>
       ELSE LET delta == ChatDelta(line, stRoleSent) IN
            /\ stRoleSent' = (stRoleSent \/ line.role # "")
            /\ IF DeltaNonEmpty(delta)
               THEN \E ok \in (IF connOpen THEN BOOLEAN ELSE {FALSE}) :
                       /\ connOpen' = ok
                       /\ stOut' = IF ok THEN Append(stOut, delta) ELSE stOut
                       /\ stEnd' = IF ok THEN "" ELSE "writeErr"
               ELSE UNCHANGED <<stOut, stEnd, connOpen>>
            /\ UNCHANGED stLate
    /\ UNCHANGED stBody

\* a converter that closes every stream with the terminal chunk and sentinel
StreamEndWithSentinel ==
    /\ stEnd = ""
    /\ stPos = Len(stBody)
    /\ stEnd' = "eof"
    /\ stOut' = IF connOpen THEN stOut \o <<FinalChunk, Sentinel>> ELSE stOut
    /\ UNCHANGED <<stBody, stPos, stRoleSent, connOpen, stLate>>

\* scanner.Scan() returns false at the end of the body
StreamEnd ==
    /\ stEnd = ""
    /\ stPos = Len(stBody)
    /\ stEnd' = "eof"
    /\ UNCHANGED <<stBody, stPos, stOut, stRoleSent, connOpen, stLate>>

\* scanner.Scan() returns false on a read error of the body
StreamReadErr ==
    /\ stEnd = ""
    /\ stPos < Len(stBody)
    /\ stEnd' = "readErr"
    /\ UNCHANGED <<stBody, stPos, stOut, stRoleSent, connOpen, stLate>>

InitStream ==
    /\ AcqIdle
    /\ ExIdle
    /\ HIdle
    /\ LockIdle
    /\ stBody \in BodiesUpTo(MaxStream)
    /\ stPos = 0
    /\ stOut = <<>>
    /\ stRoleSent = FALSE
    /\ stEnd = ""
    /\ connOpen = TRUE
    /\ stLate = 0

NextStream ==
    /\ \/ StreamScan
       \/ StreamEnd
       \/ StreamReadErr
    /\ UNCHANGED <<acqVars, exVars, hVars, lkVars>>

SpecStream == InitStream /\ [][NextStream]_vars

-----------------------------------------------------------------------------
(* The copy loop of a streaming pass-through response *)

\* a mutated iteration that looks at the read's error before its bytes
CopyStepErrFirst ==
    /\ stEnd = ""
    /\ \E n \in (IF stPos < Len(stBody) THEN {0, 1} ELSE {0}),
          err \in { "nil", "eof", "error" }, ok \in BOOLEAN :
          /\ n > 0 \/ err # "nil"
          /\ err = "eof" => stPos + n = Len(stBody)
          /\ n = 0 => ok
          /\ stPos' = stPos + n
          /\ stOut' = IF n > 0 /\ ok /\ err = "nil"
                      THEN Append(stOut, stBody[stPos + 1]) ELSE stOut
          /\ connOpen' = (err # "nil" \/ ok)
          /\ stEnd' = IF err = "eof" THEN "eof"
                      ELSE IF err = "error" THEN "readErr"
                      ELSE IF ~ok THEN "writeErr" ELSE ""
    /\ UNCHANGED <<stBody, stRoleSent, stLate>>

\* one iteration of the loop: a read returns n pieces (here 0 or 1) and an
\* error; the pieces are written first, and a failed write ends the loop;
\* then the read's error ends it
CopyStep ==
    /\ stEnd = ""
    /\ \E n \in (IF stPos < Len(stBody) THEN {0, 1} ELSE {0}),
          err \in { "nil", "eof", "error" }, ok \in BOOLEAN :
          /\ n > 0 \/ err # "nil"
          /\ err = "eof" => stPos + n = Len(stBody)
          /\ n = 0 => ok
          /\ stPos' = stPos + n
          /\ stOut' = IF n > 0 /\ ok THEN Append(stOut, stBody[stPos + 1]) ELSE stOut
          /\ connOpen' = ok
          /\ stEnd' = IF ~ok THEN "writeErr"
                      ELSE IF err = "eof" THEN "eof"
                      ELSE IF err = "error" THEN "readErr" ELSE ""
    /\ UNCHANGED <<stBody, stRoleSent, stLate>>

NextCopy == CopyStep /\ UNCHANGED <<acqVars, exVars, hVars, lkVars>>

SpecCopy == InitStream /\ [][NextCopy]_vars

\* C26: what the caller of a streaming pass-through has received is what
\* was read from the backend body, in order and once each: always a prefix
\* of the body, and while no write has failed all of what was read, the
\* pieces that came with the end of the stream or with a read error included.
C26_CopyInOrder ==
    /\ stOut = SubSeq(stBody, 1, Len(stOut))
    /\ connOpen => Len(stOut) = stPos

\* C26 witness: a body of three pieces was read to its end and delivered.
C26_Witness ==
    /\ stEnd = "eof"
    /\ Len(stBody) = 3
    /\ stOut = stBody

\* C27: once a write to the caller has failed, the request makes no further
\* write and its loop has ended, so it reads no further.
C27_StopAfterWriteFailure ==
    /\ stLate = 0
    /\ ~connOpen => stEnd # ""

-----------------------------------------------------------------------------
(* Claim about the streaming chat translation *)

\* the message lines among a sequence of body lines
RECURSIVE MessageLines(_)
MessageLines(seq) ==
    IF seq = <<>> THEN <<>>
    ELSE IF Head(seq).kind = "json" /\ Head(seq).hasMsg
         THEN <<Head(seq)>> \o MessageLines(Tail(seq))
         ELSE MessageLines(Tail(seq))

\* the message lines the converter was given before the done line it stopped at
MessageLinesRead == MessageLines(SubSeq(stBody, 1, stPos - 1))

\* the non-empty contents of a sequence of lines or chunks, in order
RECURSIVE ContentsOf(_)
ContentsOf(seq) ==
    IF seq = <<>> THEN <<>>
    ELSE IF Head(seq).content # ""
         THEN <<Head(seq).content>> \o ContentsOf(Tail(seq))
         ELSE ContentsOf(Tail(seq))

\* the non-empty roles of a sequence of lines or chunks, in order
RECURSIVE RolesOf(_)
RolesOf(seq) ==
    IF seq = <<>> THEN <<>>
    ELSE IF Head(seq).role # ""
         THEN <<Head(seq).role>> \o RolesOf(Tail(seq))
         ELSE RolesOf(Tail(seq))

\* what C4 says of the events written for a stream that reached its done line
\* with every write accepted, given how many chunks must carry a role
StreamShape(roleChunks) ==
    LET n == Len(stOut) IN
    /\ n >= 2
    /\ stOut[n] = Sentinel
    /\ stOut[n - 1] = FinalChunk
    /\ \A i \in 1..(n - 2) : stOut[i].kind = "delta"
    /\ ContentsOf(SubSeq(stOut, 1, n - 2)) = ContentsOf(MessageLinesRead)
    /\ Len(RolesOf(SubSeq(stOut, 1, n - 2))) = roleChunks
    /\ roleChunks = 1 =>
          RolesOf(SubSeq(stOut, 1, n - 2))[1] = RolesOf(MessageLinesRead)[1]

\* in every state nothing follows a sentinel
NothingAfterSentinel ==
    \A i \in 1..Len(stOut) : stOut[i] = Sentinel => i = Len(stOut)

StreamDone == stEnd = "done" /\ connOpen

\* C4 as claimed: for a stream with at least one content-bearing line before its
\* done line, exactly one chunk carries a role, the content chunks carry the
\* non-empty contents in input order, then one terminal chunk and one
\* sentinel follow, and nothing is written after the sentinel.
C4_ExactlyOneRoleChunk ==
    /\ NothingAfterSentinel
    /\ (StreamDone /\ Len(ContentsOf(MessageLinesRead)) > 0) => StreamShape(1)

\* C4 amended: as claimed, except that a role is carried by exactly one chunk
\* when some message line before the done line has a non-empty role, and by
\* none otherwise (no role is made up).
C4_StreamTranslation ==
    /\ NothingAfterSentinel
    /\ StreamDone =>
          StreamShape(IF Len(RolesOf(MessageLinesRead)) > 0 THEN 1 ELSE 0)

\* C4 witness: two content lines naming different roles, then the done line
\* and a further content line; every write was accepted.
C4_Witness ==
    /\ StreamDone
    /\ stOut = <<DeltaChunk("user", "a"), DeltaChunk("", "b"), FinalChunk,
                 Sentinel>>
    /\ stBody[2].role = "assistant"
    /\ stPos < Len(stBody)
    /\ stBody[stPos + 1].content # ""

\* C35: streaming translation loses no content: once the converter has ended
\* at the done line or at the end of the body, with every write accepted,
\* the contents of the chunks it wrote are, in order, the contents of the
\* message lines it was given up to and including the done line
C35_NoContentLost ==
    (stEnd \in {"done", "eof"} /\ connOpen) =>
        ContentsOf(stOut) = ContentsOf(MessageLines(SubSeq(stBody, 1, stPos)))

\* a line with done = true is among the lines the converter has read
DoneLineRead ==
    \E i \in 1..stPos : stBody[i].kind = "json" /\ stBody[i].done

\* the terminal chunk or the sentinel is among the events written
TerminalWritten ==
    \E i \in 1..Len(stOut) : stOut[i] \in {FinalChunk, Sentinel}

\* C37: the converter takes its done branch, which writes the terminal
\* finish_reason chunk and the [DONE] sentinel, if and only if it read a line
\* with done = true: the caller never gets either without such a line, gets
\* both, in this order and last, when the line was read and the writes were
\* accepted, and gets neither when the body ends without a done line
C37_TerminalIffDone ==
    /\ (stEnd = "done") <=> DoneLineRead
    /\ TerminalWritten => DoneLineRead
    /\ (DoneLineRead /\ connOpen) =>
          /\ Len(stOut) >= 2
          /\ SubSeq(stOut, Len(stOut) - 1, Len(stOut)) = <<FinalChunk, Sentinel>>
    /\ stEnd = "eof" => ~TerminalWritten

\* a body of two content lines and no done line, read to its end
C37_Witness ==
    /\ stEnd = "eof"
    /\ stPos = 2
    /\ connOpen
    /\ stOut = <<DeltaChunk("user", "a"), DeltaChunk("", "b")>>

-----------------------------------------------------------------------------
(* The inference handlers: what they send to the backend and answer *)

\* a model field the caller left out
NoName == <<>>

\* the model values a caller may put in a request body
CallerModels == { NoName, <<"x">>, Model }

\* the model value a mutated handler forwards: the caller's own, when given
KeepCallerModel(callerModel) ==
    IF callerModel = NoName THEN Model ELSE callerModel

\* requestData["model"] = s.config.Model
ReplaceModel(callerModel) == Model

\* http.Error(w, text, code)
TextError(code, text) == [status |-> code, kind |-> "text", text |-> text]

\* JSON values of an embedding input: strings and one non-string value
Str(v) == [str |-> TRUE, val |-> v]
NonStr == [str |-> FALSE, val |-> "7"]
NoItem == [str |-> FALSE, val |-> ""]

\* the input field of an embedding request: absent, a string, an array or
\* a value of another type
EmbedInputs ==
    { [kind |-> "absent", items |-> <<>>],
      [kind |-> "other", items |-> <<>>],
      [kind |-> "string", items |-> <<Str("a")>>],
      [kind |-> "string", items |-> <<Str("b")>>] }
    \cup { [kind |-> "array", items |-> a] :
             a \in { <<>>, <<Str("a")>>, <<Str("b")>>, <<NonStr>>,
                     <<Str("a"), Str("b")>>, <<Str("b"), Str("a")>>,
                     <<Str("a"), NonStr>>,
                     <<Str("a"), Str("b"), Str("a")>>,
                     <<Str("b"), Str("b"), Str("a")>> } }

EmbedRoutes == { "/api/embeddings", "/api/embed", "/v1/embeddings" }

\* embedding requests with a JSON object as body; a prompt field decides the
\* dispatch only when there is no input field
EmbedRequests ==
    { [route |-> r, model |-> m, input |-> i, hasPrompt |-> p] :
        r \in EmbedRoutes, m \in CallerModels, i \in EmbedInputs,
        p \in BOOLEAN }

\* vectors a backend may answer with
V1 == <<1>>
V2 == <<2>>

\* the "embeddings" and "embedding" fields of a backend reply
Plural(kind, vec) == [kind |-> kind, vec |-> vec]
Singular(kind, vec) == [kind |-> kind, vec |-> vec]

EmbedReply(transport, status, readable, parsable, plural, singular) ==
    [transport |-> transport, status |-> status, readable |-> readable,
     parsable |-> parsable, embeddings |-> plural, embedding |-> singular]

\* what the backend can answer to one /api/embeddings call
EmbedReplies ==
    { EmbedReply("err", 0, FALSE, FALSE, Plural("absent", <<>>),
                 Singular("absent", <<>>)),
      EmbedReply("ok", 500, TRUE, TRUE, Plural("absent", <<>>),
                 Singular("vector", V2)),
      EmbedReply("ok", 200, FALSE, FALSE, Plural("absent", <<>>),
                 Singular("absent", <<>>)),
      EmbedReply("ok", 200, TRUE, FALSE, Plural("absent", <<>>),
                 Singular("absent", <<>>)) }
    \cup { EmbedReply("ok", 200, TRUE, TRUE, f[1], f[2]) :
             f \in { <<Plural("absent", <<>>), Singular("absent", <<>>)>>,
                     <<Plural("absent", <<>>), Singular("vector", V2)>>,
                     <<Plural("absent", <<>>), Singular("vector", <<>>)>>,
                     <<Plural("absent", <<>>), Singular("other", <<>>)>>,
                     <<Plural("vectorFirst", V1), Singular("absent", <<>>)>>,
                     <<Plural("vectorFirst", <<>>), Singular("absent", <<>>)>>,
                     <<Plural("empty", <<>>), Singular("absent", <<>>)>>,
                     <<Plural("otherFirst", <<>>), Singular("vector", V2)>> } }

\* the request a handler makes to the backend's /api/embeddings
EmbedCall(callerModel, prompt) ==
    [path |-> "/api/embeddings", model |-> ReplaceModel(callerModel),
     prompt |-> prompt]

\* "embeddings"[0] first, then "embedding"
ExtractEmbedding(reply) ==
    IF reply.embeddings.kind = "vectorFirst"
    THEN [found |-> TRUE, vec |-> reply.embeddings.vec]
    ELSE IF reply.embedding.kind = "vector"
    THEN [found |-> TRUE, vec |-> reply.embedding.vec]
    ELSE [found |-> FALSE, vec |-> <<>>]

\* the envelope of a successful embedding response
Embedded(status, ollamaFormat, vectors) ==
    [status |-> status, kind |-> IF ollamaFormat THEN "ollama" ELSE "openai",
     vectors |-> vectors]

\* a single-input handler that accepts a vector of length 0
SingleResponseKeepsEmpty(route, reply) ==
    LET x == ExtractEmbedding(reply) IN
    IF reply.transport = "err" THEN TextError(500, "Failed to proxy request")
    ELSE IF reply.status # 200
    THEN [status |-> reply.status, kind |-> "backend"]
    ELSE IF ~reply.readable THEN TextError(500, "Failed to read response")
    ELSE IF ~reply.parsable THEN TextError(500, "Failed to parse response")
    ELSE IF route = "/api/embed" /\ ~x.found /\ reply.embeddings.kind = "empty"
    THEN [status |-> 500, kind |-> "jsonError"]
    ELSE IF ~x.found
    THEN TextError(500, "Invalid embedding format or empty embedding")
    ELSE Embedded(reply.status, route = "/api/embed", <<x.vec>>)

\* the answer of handleSingleEmbedding to one backend reply
SingleResponse(route, reply) ==
    LET x == ExtractEmbedding(reply) IN
    IF reply.transport = "err" THEN TextError(500, "Failed to proxy request")
    ELSE IF reply.status # 200
    THEN [status |-> reply.status, kind |-> "backend"]
    ELSE IF ~reply.readable THEN TextError(500, "Failed to read response")
    ELSE IF ~reply.parsable THEN TextError(500, "Failed to parse response")
    ELSE IF route = "/api/embed" /\ ~x.found /\ reply.embeddings.kind = "empty"
    THEN [status |-> 500, kind |-> "jsonError"]
    ELSE IF ~x.found \/ Len(x.vec) = 0
    THEN TextError(500, "Invalid embedding format or empty embedding")
    ELSE Embedded(reply.status, route = "/api/embed", <<x.vec>>)

\* the answer of handleOllamaEmbedding to one backend reply
OllamaResponse(reply) ==
    LET x == ExtractEmbedding(reply) IN
    IF reply.transport = "err" THEN TextError(500, "Failed to proxy request")
    ELSE IF reply.status # 200
    THEN [status |-> reply.status, kind |-> "backend"]
    ELSE IF ~reply.readable THEN TextError(500, "Failed to read response")
    ELSE IF ~reply.parsable THEN TextError(500, "Failed to parse response")
    ELSE IF ~x.found \/ Len(x.vec) = 0
    THEN TextError(500, "Invalid embedding format or empty embedding")
    ELSE Embedded(reply.status, FALSE, <<x.vec>>)

\* a batch loop that keeps the vector of a reply whatever its status
BatchItemVectorAnyStatus(reply) ==
    LET x == ExtractEmbedding(reply) IN
    IF reply.transport = "err" \/ ~reply.readable \/ ~reply.parsable
    THEN <<>>
    ELSE IF ~x.found \/ Len(x.vec) = 0 THEN <<>>
    ELSE <<x.vec>>

\* one iteration of the batch loop: the vector appended for a reply, if any
BatchItemVector(reply) ==
    LET x == ExtractEmbedding(reply) IN
    IF reply.transport = "err" \/ reply.status # 200 \/ ~reply.readable
       \/ ~reply.parsable
    THEN <<>>
    ELSE IF ~x.found \/ Len(x.vec) = 0 THEN <<>>
    ELSE <<x.vec>>

\* the embeddings slice after the batch loop
RECURSIVE BatchEmbeddings(_)
BatchEmbeddings(rs) ==
    IF rs = <<>> THEN <<>>
    ELSE BatchItemVector(Head(rs)) \o BatchEmbeddings(Tail(rs))

\* the answer of handleBatchEmbeddings
BatchResponse(route, embeddings) ==
    IF Len(embeddings) = 0
    THEN TextError(500, "Failed to generate embeddings")
    ELSE Embedded(200, route = "/api/embed", embeddings)

\* a dispatch that sends every array to the batch handler
IsBatchAnyArray(input) ==
    input.kind = "array" /\ Len(input.items) > 0

\* isBatch && len(inputs) > 1
IsBatch(input) ==
    input.kind = "array" /\ Len(input.items) > 1

\* handleSingleEmbedding: input becomes prompt; one backend call
SingleEmbedding(req) ==
    /\ handledBy' = "handleSingleEmbedding"
    /\ IF req.input.kind = "other"
          \/ (req.input.kind = "array" /\ Len(req.input.items) = 0)
          \/ (req.input.kind = "array" /\ ~req.input.items[1].str)
       THEN /\ sent' = <<>>
            /\ replies' = <<>>
            /\ rsp' = TextError(400, "Invalid input format")
       ELSE \E reply \in EmbedReplies :
              /\ sent' = <<EmbedCall(req.model,
                                     IF req.input.kind = "absent"
                                     THEN NoItem ELSE req.input.items[1])>>
              /\ replies' = <<reply>>
              /\ rsp' = SingleResponse(req.route, reply)

\* handleOllamaEmbedding: the prompt is forwarded as it is; one backend call
OllamaEmbedding(req) ==
    /\ handledBy' = "handleOllamaEmbedding"
    /\ \E reply \in EmbedReplies :
          /\ sent' = <<EmbedCall(req.model, Str("p"))>>
          /\ replies' = <<reply>>
          /\ rsp' = OllamaResponse(reply)

\* handleBatchEmbeddings: one backend call per input, in order
BatchEmbeddingsHandler(req) ==
    LET n == Len(req.input.items) IN
    /\ handledBy' = "handleBatchEmbeddings"
    /\ \E rs \in [1..n -> EmbedReplies] :
          /\ sent' = [i \in 1..n |-> EmbedCall(req.model, req.input.items[i])]
          /\ replies' = rs
          /\ rsp' = BatchResponse(req.route, BatchEmbeddings(rs))

\* handleEmbeddings for a POST with a JSON object as body
HandleEmbeddings ==
    /\ handledBy = ""
    /\ \E req \in EmbedRequests :
          /\ rq' = req
          /\ IF req.hasPrompt /\ req.input.kind = "absent"
             THEN OllamaEmbedding(req)
             ELSE IF IsBatch(req.input)
             THEN BatchEmbeddingsHandler(req)
             ELSE SingleEmbedding(req)

\* the routes C1 names, and the two further routes of the chat handler
NativeRoutes == { "/api/generate", "/api/chat" }
ChatRoutes ==
    { "/v1/chat/completions", "/api/chat/completions", "/api/chat/completed" }
CompletionRoutes == { "/v1/completions" }
InferenceRoutes ==
    NativeRoutes \cup EmbedRoutes \cup ChatRoutes \cup CompletionRoutes

\* the stream field of a request body: absent, a boolean or another value
StreamFields == { "absent", "true", "false", "other" }

\* streamBool, taken only from a boolean stream field
StreamFlag(field) == field = "true"

\* value.(string) with the zero value when the assertion fails
AsString(item) == IF item.str THEN item.val ELSE ""

\* JSON numbers in tenths, and a field that is absent or not a number
Num(tenths) == [num |-> TRUE, tenths |-> tenths]
NoNumber == [num |-> FALSE, tenths |-> 0]

\* int(value) of a float64, 0 when the field was no number
ToInt(n) == IF n.num THEN TruncDiv(n.tenths, 10) ELSE 0

EvalCounts == { NoNumber, Num(0), Num(30), Num(35) }
PromptEvalCounts == { NoNumber, Num(20) }

\* a body that is unreadable, empty or no JSON is refused before any call
BadBodies ==
    { [kind |-> "unreadable", text |-> "Failed to read request body"],
      [kind |-> "empty", text |-> "Request body cannot be empty"],
      [kind |-> "invalid", text |-> "Invalid JSON"] }

HandleBadBody ==
    /\ handledBy = ""
    /\ \E route \in InferenceRoutes, m \in CallerModels, b \in BadBodies :
          /\ rq' = [route |-> route, model |-> m, body |-> b.kind]
          /\ handledBy' = "badBody"
          /\ sent' = <<>>
          /\ replies' = <<>>
          /\ rsp' = TextError(400, b.text)

\* the backend's answer to a native call: status, whether its headers
\* announce a stream, and the pieces of its body
NativeReplies ==
    { [transport |-> "err", status |-> 0, streaming |-> FALSE, body |-> <<>>] }
    \cup { [transport |-> "ok", status |-> st, streaming |-> sg, body |-> b] :
             st \in {200, 500}, sg \in BOOLEAN,
             b \in { <<>>, <<"c1">>, <<"c1", "c2">> } }

\* handleInferenceRequest: the body with its model replaced goes to the same
\* path; status and body are copied back until a read or write fails
HandleInferenceRequest ==
    /\ handledBy = ""
    /\ \E route \in NativeRoutes, m \in CallerModels, sf \in StreamFields,
          reply \in NativeReplies :
          /\ rq' = [route |-> route, model |-> m, stream |-> sf]
          /\ handledBy' = "handleInferenceRequest"
          /\ sent' = << [path |-> route, model |-> ReplaceModel(m),
                         stream |-> sf] >>
          /\ replies' = <<reply>>
          /\ IF reply.transport = "err"
             THEN rsp' = TextError(500, "Failed to proxy request")
             ELSE \E copied \in 0..Len(reply.body) :
                     rsp' = [status |-> reply.status, kind |-> "copy",
                             streaming |-> reply.streaming,
                             body |-> SubSeq(reply.body, 1, copied)]

\* entries of a messages array: objects with role and content, or other values
Msg(role, content) == [obj |-> TRUE, role |-> role, content |-> content]
NonMsg == [obj |-> FALSE, role |-> "", content |-> ""]

ChatMessages ==
    { [kind |-> "absent", items |-> <<>>],
      [kind |-> "other", items |-> <<>>] }
    \cup { [kind |-> "array", items |-> a] :
             a \in { <<>>, <<NonMsg>>, <<Msg("user", "q")>>,
                     <<Msg("system", "s"), NonMsg, Msg("user", "q")>> } }

\* ollamaMessages: the entries that are objects, in order
RECURSIVE ConvertMessages(_)
ConvertMessages(items) ==
    IF items = <<>> THEN <<>>
    ELSE IF Head(items).obj
         THEN <<Head(items)>> \o ConvertMessages(Tail(items))
         ELSE ConvertMessages(Tail(items))

ChatReply(tr, st, readable, parsable, hasMessage, role, content, ec, pec) ==
    [transport |-> tr, status |-> st, readable |-> readable,
     parsable |-> parsable, hasMessage |-> hasMessage, role |-> role,
     content |-> content, evalCount |-> ec, promptEvalCount |-> pec]

\* the backend's answers to a non-streaming /api/chat call
ChatReplies ==
    { ChatReply("err", 0, FALSE, FALSE, FALSE, NoItem, NoItem, NoNumber,
                NoNumber) }
    \cup { ChatReply("ok", st, b[1], b[2], FALSE, NoItem, NoItem, NoNumber,
                     NoNumber) :
             st \in {200, 500},
             b \in { <<FALSE, FALSE>>, <<TRUE, FALSE>>, <<TRUE, TRUE>> } }
    \cup { ChatReply("ok", st, TRUE, TRUE, TRUE, role, content, ec, pec) :
             st \in {200, 500},
             role \in { NoItem, Str(""), Str("assistant"), Str("user") },
             content \in { NoItem, Str(""), Str("hi") },
             ec \in EvalCounts, pec \in PromptEvalCounts }

\* a conversion that forwards the native role as it is
convertOllamaToOpenAINoDefault(status, reply) ==
    IF ~reply.readable THEN TextError(status, "Failed to read response")
    ELSE IF ~reply.parsable THEN TextError(status, "Failed to parse response")
    ELSE IF ~reply.hasMessage THEN TextError(status, "Invalid response format")
    ELSE [status |-> status, kind |-> "chat",
          role |-> AsString(reply.role),
          content |-> AsString(reply.content),
          finish_reason |-> "stop",
          prompt_tokens |-> ToInt(reply.promptEvalCount),
          completion_tokens |-> ToInt(reply.evalCount),
          total_tokens |-> ToInt(reply.evalCount)
                           + ToInt(reply.promptEvalCount)]

\* convertOllamaToOpenAI, called after the backend's status was written
convertOllamaToOpenAI(status, reply) ==
    IF ~reply.readable THEN TextError(status, "Failed to read response")
    ELSE IF ~reply.parsable THEN TextError(status, "Failed to parse response")
    ELSE IF ~reply.hasMessage THEN TextError(status, "Invalid response format")
    ELSE [status |-> status, kind |-> "chat",
          role |-> IF AsString(reply.role) = "" THEN "assistant"
                   ELSE AsString(reply.role),
          content |-> AsString(reply.content),
          finish_reason |-> "stop",
          prompt_tokens |-> ToInt(reply.promptEvalCount),
          completion_tokens |-> ToInt(reply.evalCount),
          total_tokens |-> ToInt(reply.evalCount)
                           + ToInt(reply.promptEvalCount)]

\* the answers that matter to a streaming call: its status line
StatusReplies(all) ==
    { r \in all : r.transport = "err" \/ (~r.readable /\ ~r.parsable) }

\* handleOpenAIInferenceRequest: messages are rebuilt, one call to /api/chat
HandleOpenAIInferenceRequest ==
    /\ handledBy = ""
    /\ \E route \in ChatRoutes, m \in CallerModels, msgs \in ChatMessages,
          sf \in StreamFields :
          /\ rq' = [route |-> route, model |-> m, messages |-> msgs,
                    stream |-> sf]
          /\ handledBy' = "handleOpenAIInferenceRequest"
          /\ IF msgs.kind # "array" \/ ConvertMessages(msgs.items) = <<>>
             THEN /\ sent' = <<>>
                  /\ replies' = <<>>
                  /\ rsp' = TextError(400,
                               IF msgs.kind = "absent"
                               THEN "Missing 'messages' field"
                               ELSE IF msgs.kind = "other"
                               THEN "Invalid messages format"
                               ELSE "No valid messages")
             ELSE \E reply \in (IF StreamFlag(sf) THEN StatusReplies(ChatReplies)
                                ELSE ChatReplies) :
                    /\ sent' = << [path |-> "/api/chat",
                                   model |-> ReplaceModel(m),
                                   messages |-> ConvertMessages(msgs.items),
                                   stream |-> StreamFlag(sf)] >>
                    /\ replies' = <<reply>>
                    /\ rsp' = IF reply.transport = "err"
                              THEN TextError(500, "Failed to proxy request")
                              ELSE IF StreamFlag(sf)
                              THEN [status |-> reply.status, kind |-> "sse"]
                              ELSE convertOllamaToOpenAI(reply.status, reply)

\* the prompt field of a text completion request
CompletionPrompts ==
    { [kind |-> "absent", items |-> <<>>],
      [kind |-> "string", items |-> <<Str("")>>],
      [kind |-> "string", items |-> <<Str("p")>>],
      [kind |-> "array", items |-> <<>>],
      [kind |-> "array", items |-> <<Str("p"), Str("q")>>],
      [kind |-> "array", items |-> <<NonStr>>] }

\* the prompt handleOpenAICompletions extracts: the string itself, or the
\* first element of an array when that is a string; "" otherwise
ExtractPrompt(p) ==
    IF p.kind = "string" THEN p.items[1].val
    ELSE IF p.kind = "array" /\ Len(p.items) > 0 THEN AsString(p.items[1])
    ELSE ""

GenReply(tr, st, readable, parsable, response, done, ec, pec) ==
    [transport |-> tr, status |-> st, readable |-> readable,
     parsable |-> parsable, response |-> response, done |-> done,
     evalCount |-> ec, promptEvalCount |-> pec]

\* the backend's answers to a non-streaming /api/generate call
GenReplies ==
    { GenReply("err", 0, FALSE, FALSE, NoItem, "absent", NoNumber, NoNumber) }
    \cup { GenReply("ok", st, b[1], b[2], NoItem, "absent", NoNumber,
                    NoNumber) :
             st \in {200, 500}, b \in { <<FALSE, FALSE>>, <<TRUE, FALSE>> } }
    \cup { GenReply("ok", st, TRUE, TRUE, text, done, ec, pec) :
             st \in {200, 500}, text \in { NoItem, Str("hi") },
             done \in { "absent", "true", "false" },
             ec \in EvalCounts, pec \in PromptEvalCounts }

\* convertOllamaGenerateToOpenAI, called after the backend's status was written
convertOllamaGenerateToOpenAI(status, reply) ==
    IF ~reply.readable THEN TextError(status, "Failed to read response")
    ELSE IF ~reply.parsable THEN TextError(status, "Failed to parse response")
    ELSE [status |-> status, kind |-> "completion",
          text |-> AsString(reply.response),
          finish_reason |-> IF reply.done = "false" THEN "length" ELSE "stop",
          prompt_tokens |-> ToInt(reply.promptEvalCount),
          completion_tokens |-> ToInt(reply.evalCount),
          total_tokens |-> ToInt(reply.evalCount)
                           + ToInt(reply.promptEvalCount)]

\* handleOpenAICompletions: one call to /api/generate with the prompt
HandleOpenAICompletions ==
    /\ handledBy = ""
    /\ \E route \in CompletionRoutes, m \in CallerModels,
          p \in CompletionPrompts, sf \in StreamFields :
          /\ rq' = [route |-> route, model |-> m, prompt |-> p, stream |-> sf]
          /\ handledBy' = "handleOpenAICompletions"
          /\ IF p.kind # "string" /\ ExtractPrompt(p) = ""
             THEN /\ sent' = <<>>
                  /\ replies' = <<>>
                  /\ rsp' = TextError(400, "Missing 'prompt' field")
             ELSE \E reply \in (IF StreamFlag(sf) THEN StatusReplies(GenReplies)
                                ELSE GenReplies) :
                    /\ sent' = << [path |-> "/api/generate",
                                   model |-> ReplaceModel(m),
                                   prompt |-> ExtractPrompt(p),
                                   stream |-> StreamFlag(sf)] >>
                    /\ replies' = <<reply>>
                    /\ rsp' = IF reply.transport = "err"
                              THEN TextError(500, "Failed to proxy request")
                              ELSE IF StreamFlag(sf)
                              THEN [status |-> reply.status, kind |-> "sse"]
                              ELSE convertOllamaGenerateToOpenAI(reply.status,
                                                                 reply)

\* the modified_at field of a listing entry: an RFC 3339 string (with its
\* Unix time), a string that is no time, a number, or absent
ModifiedAt(kind, unix, number) == [kind |-> kind, unix |-> unix, number |-> number]
ModifiedAts ==
    { ModifiedAt("absent", 0, NoNumber), ModifiedAt("rfc3339", 7, NoNumber),
      ModifiedAt("string", 0, NoNumber), ModifiedAt("number", 0, Num(95)) }

\* one element of the backend's "models" array: an object with a name
\* field, or a value that is no object
TagEntry(isObject, name, modified) == [isObject |-> isObject, name |-> name, modified |-> modified]
TagEntries ==
    { TagEntry(FALSE, NoItem, ModifiedAt("absent", 0, NoNumber)),
      TagEntry(TRUE, NonStr, ModifiedAt("absent", 0, NoNumber)),
      TagEntry(TRUE, Str(<<"x">>), ModifiedAt("rfc3339", 7, NoNumber)),
      TagEntry(TRUE, Str(<<"m">>), ModifiedAt("absent", 0, NoNumber)) }
    \cup { TagEntry(TRUE, Str(Model), md) : md \in ModifiedAts }

TagListings == UNION { [1..n -> TagEntries] : n \in 0..MaxListing }

\* what the backend can answer to GET /api/tags
TagsReply(transport, status, decodable, isArray, models) ==
    [transport |-> transport, status |-> status, decodable |-> decodable,
     isArray |-> isArray, models |-> models]
ListingReplies ==
    { TagsReply("err", 0, FALSE, FALSE, <<>>),
      TagsReply("ok", 500, FALSE, FALSE, <<>>),
      TagsReply("ok", 200, FALSE, FALSE, <<>>),
      TagsReply("ok", 200, TRUE, FALSE, <<>>) }
    \cup { TagsReply("ok", 200, TRUE, TRUE, l) : l \in TagListings }

ListingMethods == { "GET", "POST", "OPTIONS" }

TagsCall == [path |-> "/api/tags", method |-> "GET"]

\* a mutated filter: every entry with a string name
IsNamed(entry) == entry.isObject /\ entry.name.str

\* modelName == s.config.Model on an object entry with a string name
IsConfigured(entry) ==
    entry.isObject /\ entry.name.str /\ entry.name.val = Model

RECURSIVE FilterModels(_)
FilterModels(models) ==
    IF models = <<>> THEN <<>>
    ELSE IF IsConfigured(Head(models))
    THEN <<Head(models)>> \o FilterModels(Tail(models))
    ELSE FilterModels(Tail(models))

\* the created field: the parsed time, the truncated number, or 0
Created(modified) ==
    IF modified.kind = "rfc3339" THEN modified.unix
    ELSE IF modified.kind = "number" THEN ToInt(modified.number)
    ELSE 0

\* the entry of the compatible listing made from a native one
OpenAIModel(entry) ==
    [id |-> entry.name.val, object |-> "model", created |-> Created(entry.modified),
     owned_by |-> "library"]

\* the answer both listing handlers give to a backend reply that is no
\* usable listing; NoResponse when it is one
ListingFailure(reply) ==
    IF reply.transport = "err" THEN TextError(500, "Failed to proxy request")
    ELSE IF reply.status # 200 THEN [status |-> reply.status, kind |-> "backend"]
    ELSE IF ~reply.decodable THEN TextError(500, "Failed to decode response")
    ELSE IF ~reply.isArray THEN TextError(500, "Invalid response format")
    ELSE NoResponse

\* GET /api/tags
HandleTags ==
    /\ handledBy = ""
    /\ handledBy' = "handleTags"
    /\ \E method \in ListingMethods :
          /\ rq' = [route |-> "/api/tags", method |-> method]
          /\ IF method # "GET"
             THEN /\ sent' = <<>>
                  /\ replies' = <<>>
                  /\ rsp' = IF method = "OPTIONS"
                            THEN [status |-> 204, kind |-> "empty"]
                            ELSE TextError(405, "Method not allowed")
             ELSE \E reply \in ListingReplies :
                    /\ sent' = <<TagsCall>>
                    /\ replies' = <<reply>>
                    /\ rsp' = IF ListingFailure(reply) # NoResponse
                              THEN ListingFailure(reply)
                              ELSE [status |-> 200, kind |-> "tags",
                                    models |-> FilterModels(reply.models)]

\* GET /v1/models
HandleOpenAIModels ==
    /\ handledBy = ""
    /\ handledBy' = "handleOpenAIModels"
    /\ \E method \in ListingMethods :
          /\ rq' = [route |-> "/v1/models", method |-> method]
          /\ IF method # "GET"
             THEN /\ sent' = <<>>
                  /\ replies' = <<>>
                  /\ rsp' = [status |-> IF method = "OPTIONS" THEN 204 ELSE 405,
                             kind |-> "empty"]
             ELSE \E reply \in ListingReplies :
                    /\ sent' = <<TagsCall>>
                    /\ replies' = <<reply>>
                    /\ rsp' = IF ListingFailure(reply) # NoResponse
                              THEN ListingFailure(reply)
                              ELSE LET kept == FilterModels(reply.models) IN
                                   [status |-> 200, kind |-> "list",
                                    data |-> [i \in 1..Len(kept) |->
                                                OpenAIModel(kept[i])]]

\* the routes registered with handleProxy
ProxyRoutes == { "/api/version", "/api/ps", "/api/stop", "/v1/responses" }

\* request bodies of a pass-through request: none, or a JSON object naming
\* a model in its name or model field
ProxyBodies ==
    { [field |-> "", val |-> NoName] }
    \cup { [field |-> f, val |-> v] : f \in { "name", "model" }, v \in { <<"x">>, Model } }

\* what the backend can answer to a passed-through request
ProxyReplies ==
    { [transport |-> "err", status |-> 0, header |-> "", body |-> <<>>] }
    \cup { [transport |-> "ok", status |-> st, header |-> h, body |-> b] :
             st \in { 200, 404, 500 }, h \in { "", "application/json" },
             b \in { <<>>, <<"c1">>, <<"c1", "c2">> } }

\* a mutated pass-through that rewrites the model or name field as the
\* inference handlers do
HandleProxyRewriting ==
    /\ handledBy = ""
    /\ handledBy' = "handleProxy"
    /\ \E route \in ProxyRoutes, method \in { "GET", "POST", "DELETE" },
          body \in ProxyBodies, readable \in BOOLEAN :
          /\ rq' = [route |-> route, method |-> method, body |-> body]
          /\ IF ~readable
             THEN /\ sent' = <<>>
                  /\ replies' = <<>>
                  /\ rsp' = TextError(400, "Failed to read request body")
             ELSE \E reply \in ProxyReplies :
                    /\ sent' = << [path |-> route, method |-> method,
                                   body |-> [body EXCEPT !.val = Model]] >>
                    /\ replies' = <<reply>>
                    /\ rsp' = IF reply.transport = "err"
                              THEN TextError(500, "Failed to proxy request")
                              ELSE [status |-> reply.status, kind |-> "copy",
                                    header |-> reply.header, body |-> reply.body]

\* handleProxy: method, path and body go to the backend as they came;
\* headers, status and body come back as the backend gave them
HandleProxy ==
    /\ handledBy = ""
    /\ handledBy' = "handleProxy"
    /\ \E route \in ProxyRoutes, method \in { "GET", "POST", "DELETE" },
          body \in ProxyBodies, readable \in BOOLEAN :
          /\ rq' = [route |-> route, method |-> method, body |-> body]
          /\ IF ~readable
             THEN /\ sent' = <<>>
                  /\ replies' = <<>>
                  /\ rsp' = TextError(400, "Failed to read request body")
             ELSE \E reply \in ProxyReplies :
                    /\ sent' = << [path |-> route, method |-> method,
                                   body |-> body] >>
                    /\ replies' = <<reply>>
                    /\ rsp' = IF reply.transport = "err"
                              THEN TextError(500, "Failed to proxy request")
                              ELSE [status |-> reply.status, kind |-> "copy",
                                    header |-> reply.header, body |-> reply.body]

\* paths no HandleFunc names: the mux gives them to the "/" pattern
UnregisteredPaths ==
    { "/", "/api/pull", "/api/push", "/api/delete", "/api/create", "/api/show" }

\* a mutated catch-all that forwards what it does not know
HandleIndexForwarding ==
    /\ handledBy = ""
    /\ handledBy' = "handleIndex"
    /\ \E path \in UnregisteredPaths, method \in { "GET", "POST", "DELETE" },
          m \in CallerModels :
          /\ rq' = [route |-> path, method |-> method, model |-> m]
          /\ sent' = IF path = "/" THEN <<>>
                     ELSE << [path |-> path, method |-> method, model |-> m] >>
          /\ replies' = <<>>
          /\ rsp' = IF path = "/"
                    THEN [status |-> 301, kind |-> "redirect"]
                    ELSE TextError(404, "404 page not found")

\* handleIndex: a redirect for "/", not found for every other path
HandleIndex ==
    /\ handledBy = ""
    /\ handledBy' = "handleIndex"
    /\ \E path \in UnregisteredPaths, method \in { "GET", "POST", "DELETE" },
          m \in CallerModels :
          /\ rq' = [route |-> path, method |-> method, model |-> m]
          /\ sent' = <<>>
          /\ replies' = <<>>
          /\ rsp' = IF path = "/"
                    THEN [status |-> 301, kind |-> "redirect"]
                    ELSE TextError(404, "404 page not found")

\* the answer to a request whose method is not POST on an inference route:
\* corsMiddleware sets the CORS headers except on /api/embed and
\* /api/embeddings and answers OPTIONS itself; the route's handler answers
\* the other methods
MethodResponse(route, method) ==
    LET cors == route \notin { "/api/embed", "/api/embeddings" }
        Answer(status, kind, allow) == [status |-> status, kind |-> kind, allow |-> allow, cors |-> cors]
    IN  IF method = "OPTIONS" THEN Answer(204, "empty", "")
        ELSE IF route \in EmbedRoutes \cup { "/api/generate" }
        THEN Answer(405, "text", "")
        ELSE IF route = "/api/chat"
        THEN IF method = "GET" THEN Answer(200, "json", "POST, GET, OPTIONS")
             ELSE Answer(405, "jsonError", "POST, GET, OPTIONS")
        ELSE IF method = "GET" THEN Answer(200, "json", "")
             ELSE Answer(405, "jsonError", "")

\* a request on an inference route with a method other than POST
HandleMethod ==
    /\ handledBy = ""
    /\ handledBy' = "methodCheck"
    /\ \E route \in InferenceRoutes, method \in { "OPTIONS", "GET", "PUT", "DELETE" } :
          /\ rq' = [route |-> route, method |-> method]
          /\ sent' = <<>>
          /\ replies' = <<>>
          /\ rsp' = MethodResponse(route, method)

InitProxy ==
    /\ AcqIdle
    /\ ExIdle
    /\ StIdle
    /\ HIdle
    /\ LockIdle

NextProxy ==
    /\ \/ HandleBadBody
       \/ HandleInferenceRequest
       \/ HandleEmbeddings
       \/ HandleOpenAIInferenceRequest
       \/ HandleOpenAICompletions
       \/ HandleTags
       \/ HandleOpenAIModels
       \/ HandleProxy
       \/ HandleIndex
       \/ HandleMethod
    /\ UNCHANGED <<acqVars, exVars, stVars, lkVars>>

SpecProxy == InitProxy /\ [][NextProxy]_vars

-----------------------------------------------------------------------------
(* Claims about the inference handlers *)

\* the routes C1 lists
C1Routes ==
    { "/api/generate", "/api/chat", "/api/embeddings", "/api/embed",
      "/v1/chat/completions", "/v1/completions", "/v1/embeddings" }

\* C1: for a POST on an inference route, whatever model the caller supplied
\* (none included), every request sent to the backend for it carries the
\* configured target model in its model field.
C1_ForwardedModelIsTarget ==
    rq.route \in C1Routes =>
        \A i \in 1..Len(sent) : sent[i].model = Model

\* C1 witness: a batch of three inputs whose caller named another model has
\* made its three backend calls.
C1_Witness ==
    /\ rq.route = "/v1/embeddings"
    /\ rq.model = <<"x">>
    /\ Len(sent) = 3
    /\ sent[3].model = Model

\* the string an embedding input stands for when it is a string or an array
\* of one string
IsOneString(input) ==
    \/ input.kind = "string"
    \/ input.kind = "array" /\ Len(input.items) = 1 /\ input.items[1].str

\* C6: an embedding input that is a string or a one-element array of a string
\* is served as a single item with exactly one backend call for that string;
\* an input array of two or more elements is served as a batch with exactly
\* one backend call per element, in input order.
C6_EmbeddingIngress ==
    (handledBy \notin { "", "badBody", "methodCheck" } /\ rq.route \in EmbedRoutes) =>
        /\ IsOneString(rq.input) =>
              /\ handledBy = "handleSingleEmbedding"
              /\ Len(sent) = 1
              /\ sent[1].prompt = rq.input.items[1]
        /\ (rq.input.kind = "array" /\ Len(rq.input.items) >= 2) =>
              /\ handledBy = "handleBatchEmbeddings"
              /\ Len(sent) = Len(rq.input.items)
              /\ \A i \in 1..Len(sent) : sent[i].prompt = rq.input.items[i]

\* C6 witness: the one-element array ["a"] was served as a single item.
C6_Witness ==
    /\ handledBy = "handleSingleEmbedding"
    /\ rq.input = [kind |-> "array", items |-> <<Str("a")>>]
    /\ sent = <<EmbedCall(rq.model, Str("a"))>>
    /\ rsp.kind = "openai"

\* an item's backend call succeeded: it was answered, with status 200, a body
\* that could be read and parsed, and a non-empty vector in it
ItemVector(reply) ==
    IF reply.embeddings.kind = "vectorFirst" THEN reply.embeddings.vec
    ELSE IF reply.embedding.kind = "vector" THEN reply.embedding.vec
    ELSE <<>>

ItemSucceeded(reply) ==
    /\ reply.transport = "ok"
    /\ reply.status = 200
    /\ reply.readable
    /\ reply.parsable
    /\ ItemVector(reply) # <<>>

RECURSIVE SucceededVectors(_)
SucceededVectors(rs) ==
    IF rs = <<>> THEN <<>>
    ELSE IF ItemSucceeded(Head(rs))
         THEN <<ItemVector(Head(rs))>> \o SucceededVectors(Tail(rs))
         ELSE SucceededVectors(Tail(rs))

\* C7: a batch of n >= 2 items is answered with exactly the vectors of the
\* items whose backend call succeeded, in input order, and with an error
\* response if and only if no item produced a vector.
C7_BatchSkipsFailures ==
    handledBy = "handleBatchEmbeddings" =>
        /\ Len(replies) = Len(rq.input.items)
        /\ Len(replies) >= 2
        /\ (rsp.kind = "text") = (SucceededVectors(replies) = <<>>)
        /\ rsp.kind = "text" => rsp.status = 500
        /\ rsp.kind # "text" =>
              /\ rsp.status = 200
              /\ rsp.vectors = SucceededVectors(replies)

\* C7 witness: of three items the second failed with a non-200 status and
\* the answer holds the two other vectors in order.
C7_Witness ==
    /\ handledBy = "handleBatchEmbeddings"
    /\ Len(replies) = 3
    /\ replies[2].status = 500
    /\ rsp.status = 200
    /\ rsp.vectors = <<V1, V2>>

\* C8: a non-streaming compatible chat call answered natively with a message
\* gets the native content, the native role (assistant when that is absent
\* or empty), finish_reason stop, and completion_tokens equal to a whole
\* eval_count (0 when eval_count is absent).
C8_ChatConversion ==
    (/\ handledBy = "handleOpenAIInferenceRequest"
     /\ Len(replies) = 1
     /\ rq.stream # "true"
     /\ replies[1].transport = "ok"
     /\ replies[1].readable /\ replies[1].parsable /\ replies[1].hasMessage) =>
        LET native == replies[1] IN
        /\ rsp.kind = "chat"
        /\ rsp.content = AsString(native.content)
        /\ rsp.role = IF native.role \in { NoItem, Str("") } THEN "assistant"
                      ELSE native.role.val
        /\ rsp.finish_reason = "stop"
        /\ ~native.evalCount.num => rsp.completion_tokens = 0
        /\ (native.evalCount.num /\ native.evalCount.tenths % 10 = 0) =>
              rsp.completion_tokens * 10 = native.evalCount.tenths

\* C8 witness: the reply {message:{content:"hi"}, eval_count:3} without a
\* role was converted.
C8_Witness ==
    /\ handledBy = "handleOpenAIInferenceRequest"
    /\ Len(replies) = 1
    /\ replies[1].status = 200
    /\ replies[1].role = NoItem
    /\ replies[1].content = Str("hi")
    /\ replies[1].evalCount = Num(30)
    /\ rsp.kind = "chat"
    /\ rsp.role = "assistant"
    /\ rsp.completion_tokens = 3

\* every backend call of the request was answered with a non-2xx status
BackendRefused ==
    /\ Len(replies) >= 1
    /\ \A i \in 1..Len(replies) :
          replies[i].transport = "ok" /\ replies[i].status = 500

\* C16: on every inference route, when the backend answers with a non-2xx
\* status the caller receives that status and the backend's body unchanged
\* (kind "backend", or a copy that holds nothing but the backend's bytes).
C16_ErrorPassthrough ==
    BackendRefused =>
        /\ rsp.status = replies[1].status
        /\ rsp.kind \in { "backend", "copy" }
        /\ rsp.kind = "copy" =>
              rsp.body = SubSeq(replies[1].body, 1, Len(rsp.body))

\* the requests C17 has rejected: a body that is no JSON, a chat request
\* without messages, a text completion without prompt, an embedding request
\* with neither input nor prompt, or with an empty input array
MustBeRejected ==
    \/ handledBy = "badBody" /\ rq.body = "invalid"
    \/ handledBy = "handleOpenAIInferenceRequest" /\ rq.messages.kind = "absent"
    \/ handledBy = "handleOpenAICompletions" /\ rq.prompt.kind = "absent"
    \/ /\ handledBy \in { "handleSingleEmbedding", "handleBatchEmbeddings",
                         "handleOllamaEmbedding" }
       /\ \/ rq.input.kind = "absent" /\ ~rq.hasPrompt
          \/ rq.input.kind = "array" /\ Len(rq.input.items) = 0

\* C17: a request with malformed JSON, without its required field, or with
\* an empty embedding input is answered with a 4xx status and causes no
\* backend call.
C17_RejectedBeforeBackend ==
    MustBeRejected =>
        /\ rsp.status >= 400 /\ rsp.status <= 499
        /\ sent = <<>>

\* an embedding request answered with an embedding envelope
EmbeddingSucceeded ==
    /\ handledBy \in { "handleSingleEmbedding", "handleBatchEmbeddings",
                       "handleOllamaEmbedding" }
    /\ rsp.kind \in { "ollama", "openai" }

\* C18: the envelope of a successful embedding response depends on the
\* inbound path only: the native {embeddings: [[...]]} envelope on /api/embed
\* and the compatible {data: [{embedding, index}]} envelope on every other
\* path, whatever the shape of the request.
C18_EnvelopeByPath ==
    EmbeddingSucceeded =>
        (rsp.kind = "ollama" <=> rq.route = "/api/embed")

\* the response body {"embedding": [...]} of the API documentation
DocumentedEmbedding(vec) == [status |-> 200, kind |-> "embedding", vector |-> vec]

\* a prompt-shaped request on /api/embeddings whose backend call succeeded
\* with a vector
NativePromptEmbedded ==
    /\ handledBy = "handleOllamaEmbedding"
    /\ rq.route = "/api/embeddings"
    /\ Len(replies) = 1
    /\ replies[1].transport = "ok" /\ replies[1].status = 200
    /\ replies[1].readable /\ replies[1].parsable
    /\ ExtractEmbedding(replies[1]).found
    /\ Len(ExtractEmbedding(replies[1]).vec) > 0

\* C19: a successful POST /api/embeddings with {model, prompt} is answered
\* with the body {"embedding": [...]} the API documentation shows.
C19_NativeEmbeddingBody ==
    NativePromptEmbedded =>
        rsp = DocumentedEmbedding(ExtractEmbedding(replies[1]).vec)

\* a listing request whose backend call returned a listing
ListingAnswered ==
    /\ handledBy \in { "handleTags", "handleOpenAIModels" }
    /\ rq.method = "GET"
    /\ Len(replies) = 1
    /\ replies[1].transport = "ok" /\ replies[1].status = 200
    /\ replies[1].decodable /\ replies[1].isArray

\* the positions of the backend listing whose entry names the configured model
ConfiguredPositions ==
    { i \in 1..Len(replies[1].models) :
        /\ replies[1].models[i].isObject
        /\ replies[1].models[i].name = Str(Model) }

\* the names the response lists
ListedNames ==
    IF rsp.kind = "tags"
    THEN [i \in 1..Len(rsp.models) |-> rsp.models[i].name]
    ELSE [i \in 1..Len(rsp.data) |-> Str(rsp.data[i].id)]

\* C20: GET /api/tags and GET /v1/models list only entries named exactly as
\* the configured model, and list every backend entry so named: as many
\* entries as the backend listing has of that name, the native route giving
\* the backend's entries themselves.
C20_ListingFiltered ==
    ListingAnswered =>
        /\ rsp.status = 200
        /\ rsp.kind = (IF rq.route = "/api/tags" THEN "tags" ELSE "list")
        /\ \A i \in 1..Len(ListedNames) : ListedNames[i] = Str(Model)
        /\ Len(ListedNames) = Cardinality(ConfiguredPositions)
        /\ rsp.kind = "tags" =>
              \A i \in 1..Len(rsp.models) :
                 \E j \in ConfiguredPositions : rsp.models[i] = replies[1].models[j]

\* C20 witness: a compatible listing made from a backend listing with one
\* entry of another name and one of the configured model.
C20_Witness ==
    /\ ListingAnswered
    /\ rq.route = "/v1/models"
    /\ Len(replies[1].models) = 2
    /\ replies[1].models[1].name = Str(<<"x">>)
    /\ Cardinality(ConfiguredPositions) = 1
    /\ Len(rsp.data) = 1

ForwardPaths ==
    { "/api/tags", "/api/generate", "/api/chat", "/api/embeddings" } \cup ProxyRoutes

\* C22: a caller request to /api/pull, /api/push, /api/delete or any other
\* unregistered path is answered without any backend call, and no handler
\* ever sends the backend a request for a path outside the forwarded ones,
\* so none for /api/pull.
C22_ManagementBlocked ==
    /\ rq.route \in UnregisteredPaths => (sent = <<>> /\ rsp.status \in { 301, 404 })
    /\ \A i \in 1..Len(sent) : sent[i].path \in ForwardPaths

\* C22 witness: a POST /api/pull naming the configured model was answered
\* not found.
C22_Witness ==
    /\ handledBy = "handleIndex"
    /\ rq = [route |-> "/api/pull", method |-> "POST", model |-> Model]
    /\ rsp.status = 404

\* C23: a method other than POST, GET and OPTIONS on one of the seven
\* inference routes is answered 405 with a JSON error body and an Allow
\* header, and nothing is sent to the backend.
C23_MethodNotAllowed ==
    (/\ handledBy = "methodCheck"
     /\ rq.route \in C1Routes
     /\ rq.method \in { "PUT", "DELETE" }) =>
        /\ rsp.status = 405
        /\ rsp.kind = "jsonError"
        /\ rsp.allow # ""
        /\ sent = <<>>

\* C24: OPTIONS on an inference route, /api/embed and /api/embeddings
\* included, is answered 204 with the CORS headers, and nothing is sent to
\* the backend.
C24_PreflightWithCors ==
    (handledBy = "methodCheck" /\ rq.method = "OPTIONS") =>
        /\ rsp.status = 204
        /\ rsp.cors
        /\ sent = <<>>


\* the handlers that answer an embedding request from backend replies
EmbeddingHandlers ==
    {"handleSingleEmbedding", "handleOllamaEmbedding", "handleBatchEmbeddings"}

\* the positions of the backend replies that succeeded with a non-empty vector
UsableReplies == {k \in 1..Len(replies) : ItemSucceeded(replies[k])}

\* C36: no successful embedding response holds an empty vector: on the
\* single, native-prompt and batch paths every vector of a successful
\* response is the non-empty vector of one of the backend replies, a reply
\* without a usable vector is an error response on the single paths and is
\* left out on the batch path, and no vector is made up in its place
C36_NoEmptyVector ==
    handledBy \in EmbeddingHandlers =>
        /\ EmbeddingSucceeded =>
              /\ rsp.vectors # <<>>
              /\ \A i \in 1..Len(rsp.vectors) :
                    /\ Len(rsp.vectors[i]) > 0
                    /\ \E k \in UsableReplies : rsp.vectors[i] = ItemVector(replies[k])
              /\ Len(rsp.vectors) <= Cardinality(UsableReplies)
        /\ UsableReplies = {} => ~EmbeddingSucceeded

\* a single input whose backend reply is 200 with "embedding": [] is
\* answered with the error response
C36_Witness ==
    /\ handledBy = "handleSingleEmbedding"
    /\ Len(replies) = 1
    /\ replies[1].status = 200
    /\ replies[1].embedding = Singular("vector", <<>>)
    /\ rsp = TextError(500, "Invalid embedding format or empty embedding")


\* the backend listing as Client.ModelExists decodes it: every entry an
\* object whose name is a string, and the names in order
ClientDecodes ==
    \A i \in 1..Len(replies[1].models) :
        replies[1].models[i].isObject /\ replies[1].models[i].name.str

ClientNames ==
    [i \in 1..Len(replies[1].models) |-> replies[1].models[i].name.val]

\* C39: whenever ModelExists(configured model) returns true for a backend
\* listing, GET /api/tags and GET /v1/models computed from the same listing
\* return at least one entry
C39_ListedWhenExists ==
    (ListingAnswered /\ ClientDecodes /\ ModelExists(Model, ClientNames)) =>
        Len(ListedNames) >= 1

====
